---- MODULE Spec2Model ----
(***************************************************************************)
(* State-machine model of webservice_monitor: the lifecycle controller     *)
(* (core/scheduler.py, MonitorScheduler), the monitor with its coordinating*)
(* loop and worker pool (core/monitor.py, WebServiceMonitor), and the      *)
(* storage tables the core writes (db/repository.py).                      *)
(***************************************************************************)
EXTENDS Integers, Sequences, FiniteSets, TLC

(***************************************************************************)
(* Bounds of the model.                                                    *)
(***************************************************************************)
\* configured size of the worker pool (setting MAX_WORKERS, default 10)
MaxWorkers == 1
\* number of batches submitted to the pool in one behaviour
MaxBatches == 2
\* number of times the clock is seen to advance in one behaviour
MaxTicks == 2
\* number of successful WebServiceMonitor.start calls (loop threads created)
MaxStarts == 2
\* number of five-second advances of the clock where loop iterations fail
MaxFaultTicks == 12

(***************************************************************************)
(* Program constants.                                                      *)
(***************************************************************************)
\* self._thread.join(timeout=10)
JOIN_TIMEOUT == 10
\* time.sleep(1) at the end of a loop iteration
TICK_SLEEP == 1
\* "if error_count > 5" in the except branch of the loop
ERROR_LIMIT == 5
\* time.sleep(5) after a failed iteration
ERROR_SLEEP == 5
\* time.sleep(30) once the failures in a row exceed the limit
BACKOFF_SLEEP == 30

None == "None"

(***************************************************************************)
(* Strings are tuples of one-character strings, so that "in", split and    *)
(* int() are computed as Python computes them.                             *)
(***************************************************************************)
Digits == <<"0", "1", "2", "3", "4", "5", "6", "7", "8", "9">>

IsDigit(c) == \E i \in 1..10 : Digits[i] = c

DigitVal(c) == (CHOOSE i \in 1..10 : Digits[i] = c) - 1

Contains(s, c) == \E i \in 1..Len(s) : s[i] = c

\* str.split(sep): the parts between the occurrences of sep, empty parts kept
RECURSIVE SplitFrom(_, _, _, _)
SplitFrom(s, sep, i, cur) ==
    IF i > Len(s) THEN <<cur>>
    ELSE IF s[i] = sep THEN <<cur>> \o SplitFrom(s, sep, i + 1, <<>>)
    ELSE SplitFrom(s, sep, i + 1, Append(cur, s[i]))

Split(s, sep) == SplitFrom(s, sep, 1, <<>>)

\* str.strip() as int() applies it: leading and trailing blanks dropped
RECURSIVE Strip(_)
Strip(s) ==
    IF Len(s) = 0 THEN s
    ELSE IF s[1] = " " THEN Strip(Tail(s))
    ELSE IF s[Len(s)] = " " THEN Strip(SubSeq(s, 1, Len(s) - 1))
    ELSE s

RECURSIVE DigitsValue(_, _)
DigitsValue(s, acc) ==
    IF Len(s) = 0 THEN acc ELSE DigitsValue(Tail(s), acc * 10 + DigitVal(s[1]))

\* int(s): blanks stripped, an optional sign, then one or more digits;
\* anything else raises ValueError ([ok |-> FALSE])
ParseInt(s) ==
    LET t == Strip(s)
        signed == Len(t) > 0 /\ t[1] \in {"+", "-"}
        body == IF signed THEN Tail(t) ELSE t
        neg == signed /\ t[1] = "-"
    IN  IF Len(body) > 0 /\ \A i \in 1..Len(body) : IsDigit(body[i])
        THEN [ok |-> TRUE,
              val |-> IF neg THEN 0 - DigitsValue(body, 0) ELSE DigitsValue(body, 0)]
        ELSE [ok |-> FALSE, val |-> 0]

(***************************************************************************)
(* Wall-clock time, in whole seconds since midnight of day 0.              *)
(***************************************************************************)
HourOf(t) == (t \div 3600) % 24

SecondOf(t) == t % 60

\* The clocks of a behaviour: the instant it starts at and the seconds by
\* which time is seen to advance.  06:59:58 in steps of one second (the
\* sleep of the loop) and 06:59:50 in steps of ten (the join timeout of
\* stop): both cross 07:00:00, the end of an hour and of a minute.
Clocks == { [start |-> 6 * 3600 + 59 * 60 + 58, step |-> 1],
            [start |-> 6 * 3600 + 59 * 60 + 50, step |-> 10] }

(***************************************************************************)
(* WebServiceMonitor._is_in_monitoring_hours, with the current hour given. *)
(***************************************************************************)
\* monitoring_hours = None (a NULL column): a value that is no string
NoneStr == <<None>>

\* a range test that knows no wraparound: "a-b" is a <= hour <= b always
InMonitoringHoursNoWrap(monitoring_hours, current_hour) ==
    IF monitoring_hours = NoneStr THEN TRUE
    ELSE IF Contains(monitoring_hours, "-")
    THEN LET parts == Split(monitoring_hours, "-")
             a == ParseInt(parts[1])
             b == ParseInt(parts[2])
         IN  IF Len(parts) # 2 \/ ~a.ok \/ ~b.ok THEN TRUE
             ELSE a.val <= current_hour /\ current_hour <= b.val
    ELSE LET h == ParseInt(monitoring_hours)
         IN  IF ~h.ok THEN TRUE ELSE current_hour = h.val

\* a test that treats a text it cannot parse as "never in window"
InMonitoringHoursFailClosed(monitoring_hours, current_hour) ==
    IF monitoring_hours = NoneStr THEN FALSE
    ELSE IF Contains(monitoring_hours, "-")
    THEN LET parts == Split(monitoring_hours, "-")
             a == ParseInt(parts[1])
             b == ParseInt(parts[2])
         IN  IF Len(parts) # 2 \/ ~a.ok \/ ~b.ok THEN FALSE
             ELSE IF a.val <= b.val
                  THEN a.val <= current_hour /\ current_hour <= b.val
                  ELSE current_hour >= a.val \/ current_hour <= b.val
    ELSE LET h == ParseInt(monitoring_hours)
         IN  IF ~h.ok THEN FALSE ELSE current_hour = h.val

_is_in_monitoring_hours(monitoring_hours, current_hour) ==
    IF monitoring_hours = NoneStr THEN TRUE       \* TypeError, caught
    ELSE IF Contains(monitoring_hours, "-")
    THEN LET parts == Split(monitoring_hours, "-")
             a == ParseInt(parts[1])
             b == ParseInt(parts[2])
         IN  IF Len(parts) # 2 \/ ~a.ok \/ ~b.ok THEN TRUE   \* ValueError, caught
             ELSE IF a.val <= b.val
                  THEN a.val <= current_hour /\ current_hour <= b.val
                  ELSE current_hour >= a.val \/ current_hour <= b.val
    ELSE LET h == ParseInt(monitoring_hours)
         IN  IF ~h.ok THEN TRUE ELSE current_hour = h.val


(***************************************************************************)
(* The configurations table of the storage (db/models.py, Configuration).  *)
(* Only the fields the core reads are kept.  A table is a function from    *)
(* the ids to the rows; rows are ordered by id.                            *)
(***************************************************************************)
Ids == {1, 2, 3}

\* Configuration.alert_threshold, seconds (the default of the dataclass)
ALERT_THRESHOLD == 2

Config(id, interval, batch, hours) ==
    [id |-> id, call_interval |-> interval, calls_per_batch |-> batch,
     monitoring_hours |-> hours, alert_threshold |-> ALERT_THRESHOLD]

\* the tables a behaviour may run on; row 3 is never active
ConfigTables ==
    { [i \in Ids |-> CASE i = 1 -> Config(1, 5, 2, <<"2", "2", "-", "6">>)
                       [] i = 2 -> Config(2, 2, 1, <<"7">>)
                       [] i = 3 -> Config(3, 1, 1, <<"0", "-", "2", "3">>)],
      [i \in Ids |-> CASE i = 1 -> Config(1, 1, 1, <<"0", "-", "2", "3">>)
                       [] i = 2 -> Config(2, 3, 1, <<"x">>)
                       [] i = 3 -> Config(3, 1, 1, <<"0", "-", "2", "3">>)] }

\* the active flags a behaviour may run on: no active row, or rows 1 and 2
ActiveSets == {{}, {1, 2}}

\* the id sets given to Start: none, an active id, an inactive id
StartArgs == {{}, {2}, {3}}

Callers == {"c1", "c2"}

Ops == {"start", "stop", "reload", "status"}

VARIABLES
    now,                  \* wall clock, seconds
    clock,                \* the clock of this behaviour, and its ticks so far
    py39,                 \* the interpreter has shutdown(cancel_futures=...)
    caller_calls,         \* invocations of WebServiceCaller.call so far
    db_configurations,    \* storage: the configurations table
    db_active,            \* storage: ids of the rows with is_active = 1
    call_details,         \* storage: the call_details table
    minute_stats,         \* storage: the minute_stats table
    alerts,               \* storage: the alerts table
    status,               \* MonitorScheduler.status
    active_configs_count, \* MonitorScheduler.active_configs_count
    sched_lock,           \* MonitorScheduler._lock: the caller holding it
    callers,              \* control calls: one record per calling thread
    running,              \* WebServiceMonitor.running
    configurations,       \* WebServiceMonitor.configurations
    executor,             \* WebServiceMonitor.executor: None or a pool
    workers,              \* the pool's worker threads and their tasks
    _thread,              \* WebServiceMonitor._thread: a loop id, 0 for None
    mon_lock,             \* WebServiceMonitor._lock: the caller holding it
    loops,                \* the loop threads ever started
    next_batch,           \* number of the next batch submitted
    shutdown_pending      \* batches queued, not started, at a pool shutdown

vars == <<now, clock, py39, caller_calls, db_configurations, db_active, call_details, minute_stats,
          alerts, status, active_configs_count, sched_lock, callers, running,
          configurations, executor, workers, _thread, mon_lock, loops,
          next_batch, shutdown_pending>>

storage_vars == <<db_configurations, db_active, call_details, minute_stats, alerts>>

sched_vars == <<status, active_configs_count, sched_lock, callers>>

monitor_vars == <<running, configurations, executor, _thread, mon_lock>>

LoopIds == 1..MaxStarts

WorkerIds == 1..MaxWorkers

\* the empty dict {}
EmptyDict == [i \in {} |-> None]

Idle == [pc |-> "idle"]

NoLoop == [pc |-> "none"]

\* self.executor = None
NoExecutor == [none |-> TRUE, shutdown |-> FALSE, queue |-> <<>>]

\* ThreadPoolExecutor(max_workers=max_workers)
NewExecutor == [none |-> FALSE, shutdown |-> FALSE, queue |-> <<>>]

\* no value returned yet
NoRet == [ok |-> FALSE, msg |-> "none"]

\* a thread that is in no control call.  Inside stop(): deadline is the
\* instant its join timeout expires, joined how the join ended, in_progress
\* the probe calls that were in progress when stop() was entered
IdleCaller == [pc |-> "idle", op |-> None, arg |-> {}, ret |-> NoRet,
               deadline |-> 0, joined |-> None, in_progress |-> {}]

Init ==
    /\ \E k \in Clocks : /\ clock = [step |-> k.step, ticks |-> 0]
                         /\ now = k.start
    /\ py39 \in BOOLEAN
    /\ caller_calls = 0
    /\ db_configurations \in ConfigTables
    /\ db_active \in ActiveSets
    /\ call_details = {}
    /\ minute_stats = <<>>
    /\ alerts = {}
    /\ status = "stopped"
    /\ active_configs_count = 0
    /\ sched_lock = None
    /\ callers = [c \in Callers |-> IdleCaller]
    /\ running = FALSE
    /\ configurations = EmptyDict
    /\ executor = NoExecutor
    /\ workers = [w \in WorkerIds |-> Idle]
    /\ _thread = 0
    /\ mon_lock = None
    /\ loops = [i \in LoopIds |-> NoLoop]
    /\ next_batch = 1
    /\ shutdown_pending = {}


(***************************************************************************)
(* Storage reads.                                                          *)
(***************************************************************************)
\* repository.get_all_configurations(active_only=True), as the dict
\* load_configurations builds from it
get_all_configurations == [i \in db_active |-> db_configurations[i]]

\* a start that forgets to filter: every loaded entry is kept
FilterConfigsIgnored(configs, config_ids) == configs

\* the dict comprehension of start: the entries whose key is in config_ids
FilterConfigs(configs, config_ids) ==
    [i \in (DOMAIN configs) \cap config_ids |-> configs[i]]

\* threading.Thread.is_alive of loop thread i (0 stands for no thread)
is_alive(i) == i # 0 /\ loops[i].pc \notin {"none", "dead"}

\* the first loop id not used yet
FreeLoopId == CHOOSE i \in LoopIds :
    /\ loops[i].pc = "none"
    /\ \A j \in LoopIds : j < i => loops[j].pc # "none"

(***************************************************************************)
(* WebServiceMonitor.start, called with mon_lock free.  `fault` is a       *)
(* storage error raised by init_db or load_configurations; `res` is what   *)
(* the call gives its caller: "true", "false" or "raised".                 *)
(***************************************************************************)
StartResult(config_ids, fault) ==
    IF running THEN "false"
    ELSE IF fault THEN "raised"
    ELSE LET loaded == get_all_configurations
             kept == IF config_ids # {} THEN FilterConfigs(loaded, config_ids)
                     ELSE loaded
         IN  IF DOMAIN kept = {} THEN "false" ELSE "true"

\* a start that creates the pool before it looks at what was loaded
MonitorStartPoolFirst(config_ids, fault) ==
    LET loaded == get_all_configurations
        kept == IF config_ids # {} THEN FilterConfigs(loaded, config_ids)
                ELSE loaded
        res == StartResult(config_ids, fault)
    IN  /\ mon_lock = None
        /\ res = "true" => \E i \in LoopIds : loops[i].pc = "none"
        /\ configurations' = IF running \/ fault THEN configurations ELSE kept
        /\ executor' = IF running \/ fault THEN executor ELSE NewExecutor
        /\ IF res = "true"
           THEN /\ running' = TRUE
                /\ _thread' = FreeLoopId
                /\ loops' = [loops EXCEPT ![FreeLoopId] =
                                [pc |-> "new", mark |-> 0, wake |-> now, errors |-> 0]]
           ELSE UNCHANGED <<running, _thread, loops>>
        /\ UNCHANGED mon_lock

MonitorStart(config_ids, fault) ==
    LET loaded == get_all_configurations
        kept == IF config_ids # {} THEN FilterConfigs(loaded, config_ids)
                ELSE loaded
        res == StartResult(config_ids, fault)
    IN  /\ mon_lock = None
        /\ res = "true" => \E i \in LoopIds : loops[i].pc = "none"
        /\ configurations' = IF running \/ fault THEN configurations ELSE kept
        /\ IF res = "true"
           THEN /\ executor' = NewExecutor
                /\ running' = TRUE
                /\ _thread' = FreeLoopId
                /\ loops' = [loops EXCEPT ![FreeLoopId] =
                                [pc |-> "new", mark |-> 0, wake |-> now, errors |-> 0]]
           ELSE UNCHANGED <<executor, running, _thread, loops>>
        /\ UNCHANGED mon_lock

(***************************************************************************)
(* The control calls of MonitorScheduler.  A call takes the scheduler      *)
(* lock, runs its body holding it, and releases it with its result.        *)
(***************************************************************************)
\* the body has computed the value it returns; the lock is still held
Return(c, ret) ==
    /\ callers' = [callers EXCEPT ![c].pc = "return", ![c].ret = ret]
    /\ UNCHANGED sched_lock

\* a control operation entered without waiting for the scheduler's lock
CallUnlocked(c, op, arg) ==
    /\ callers[c].pc = "idle"
    /\ sched_lock' = c
    /\ callers' = [callers EXCEPT ![c] =
                      [IdleCaller EXCEPT !.pc = "enter", !.op = op, !.arg = arg]]
    /\ UNCHANGED <<now, clock, py39, caller_calls, storage_vars, status, active_configs_count,
                   monitor_vars, workers, loops, next_batch, shutdown_pending>>

\* a thread calls a control operation: "with self._lock" is entered
Call(c, op, arg) ==
    /\ callers[c].pc = "idle"
    /\ sched_lock = None
    /\ sched_lock' = c
    /\ callers' = [callers EXCEPT ![c] =
                      [IdleCaller EXCEPT !.pc = "enter", !.op = op, !.arg = arg]]
    /\ UNCHANGED <<now, clock, py39, caller_calls, storage_vars, status, active_configs_count,
                   monitor_vars, workers, loops, next_batch, shutdown_pending>>

\* the "with self._lock" block is left and the caller has its result
Release(c) ==
    /\ callers[c].pc = "return"
    /\ sched_lock' = None
    /\ callers' = [callers EXCEPT ![c] = IdleCaller]
    /\ UNCHANGED <<now, clock, py39, caller_calls, storage_vars, status, active_configs_count,
                   monitor_vars, workers, loops, next_batch, shutdown_pending>>

\* a start_monitoring without its try/except: what the monitor raises leaves
\* the "with" block and reaches the caller, who gets no result
start_monitoring_uncaught(c, fault) ==
    /\ callers[c].pc = "enter"
    /\ callers[c].op = "start"
    /\ IF status = "running"
       THEN /\ Return(c, [ok |-> FALSE, msg |-> "already_running"])
            /\ UNCHANGED <<status, active_configs_count, monitor_vars, loops>>
       ELSE LET res == StartResult(callers[c].arg, fault)
            IN  /\ MonitorStart(callers[c].arg, fault)
                /\ IF res = "true"
                   THEN /\ status' = "running"
                        /\ active_configs_count' = Cardinality(DOMAIN configurations')
                        /\ Return(c, [ok |-> TRUE, msg |-> "started"])
                   ELSE /\ UNCHANGED <<status, active_configs_count>>
                        /\ Return(c, IF res = "raised" THEN NoRet
                                      ELSE [ok |-> FALSE, msg |-> "start_failed"])
    /\ UNCHANGED <<now, clock, py39, caller_calls, storage_vars, workers, next_batch, shutdown_pending>>

start_monitoring(c, fault) ==
    /\ callers[c].pc = "enter"
    /\ callers[c].op = "start"
    /\ IF status = "running"
       THEN /\ Return(c, [ok |-> FALSE, msg |-> "already_running"])
            /\ UNCHANGED <<status, active_configs_count, monitor_vars, loops>>
       ELSE LET res == StartResult(callers[c].arg, fault)
            IN  /\ MonitorStart(callers[c].arg, fault)
                /\ IF res = "true"
                   THEN /\ status' = "running"
                        /\ active_configs_count' = Cardinality(DOMAIN configurations')
                        /\ Return(c, [ok |-> TRUE, msg |-> "started"])
                   ELSE /\ UNCHANGED <<status, active_configs_count>>
                        /\ Return(c, [ok |-> FALSE,
                                      msg |-> IF res = "raised" THEN "start_error"
                                              ELSE "start_failed"])
    /\ UNCHANGED <<now, clock, py39, caller_calls, storage_vars, workers, next_batch, shutdown_pending>>

\* a get_status that reports the stored count whatever the status is
get_status_stored_count(c) ==
    /\ callers[c].pc = "enter"
    /\ callers[c].op = "status"
    /\ Return(c, [status |-> status, active_configs |-> active_configs_count])
    /\ UNCHANGED <<now, clock, py39, caller_calls, storage_vars, status,
                   active_configs_count, monitor_vars, workers, loops, next_batch,
                   shutdown_pending>>

get_status(c) ==
    /\ callers[c].pc = "enter"
    /\ callers[c].op = "status"
    /\ Return(c, [status |-> status,
                  active_configs |-> IF status = "running"
                                     THEN active_configs_count ELSE 0])
    /\ UNCHANGED <<now, clock, py39, caller_calls, storage_vars, status, active_configs_count,
                   monitor_vars, workers, loops, next_batch, shutdown_pending>>


(***************************************************************************)
(* WebServiceMonitor.stop, in the steps at which it can wait: the join of  *)
(* the loop thread and the shutdown of the pool.  It holds mon_lock from   *)
(* its first step to its last.                                             *)
(***************************************************************************)
AllIdle == \A w \in WorkerIds : workers[w].pc = "idle"

\* the probe calls whose request is under way: (batch, number in the batch)
CallsInProgress ==
    {[batch |-> workers[w].batch, n |-> workers[w].n] :
        w \in {v \in WorkerIds : workers[v].pc = "call"}}

QueuedBatches(ex) == {ex.queue[j].batch : j \in 1..Len(ex.queue)}

\* executor.shutdown(wait=True, cancel_futures=True), up to its wait; an
\* interpreter without cancel_futures raises TypeError and the fallback
\* shutdown(wait=True) leaves the queue to the workers
Shutdown ==
    /\ executor' = IF executor.none THEN executor
                   ELSE [executor EXCEPT !.shutdown = TRUE,
                                         !.queue = IF py39 THEN <<>> ELSE @]
    /\ shutdown_pending' = shutdown_pending \cup QueuedBatches(executor)

\* a reload_configurations without its test of the status: called while
\* stopped it goes on to start the monitor
stop_enter_reload_unguarded(c) ==
    /\ callers[c].pc = "enter"
    /\ callers[c].op \in {"stop", "reload"}
    /\ IF status # "running"
       THEN /\ IF callers[c].op = "stop"
               THEN Return(c, [ok |-> FALSE, msg |-> "not_running"])
               ELSE /\ callers' = [callers EXCEPT ![c].pc = "restart"]
                    /\ UNCHANGED sched_lock
            /\ UNCHANGED <<running, mon_lock, executor, shutdown_pending>>
       ELSE /\ mon_lock = None
            /\ IF ~running
               THEN /\ IF callers[c].op = "stop"
                       THEN Return(c, [ok |-> FALSE, msg |-> "stop_failed"])
                       ELSE /\ callers' = [callers EXCEPT ![c].pc = "restart"]
                            /\ UNCHANGED sched_lock
                    /\ UNCHANGED <<running, mon_lock, executor, shutdown_pending>>
               ELSE /\ running' = FALSE
                    /\ mon_lock' = c
                    /\ UNCHANGED sched_lock
                    /\ IF is_alive(_thread)
                       THEN /\ callers' = [callers EXCEPT
                                   ![c].pc = "join",
                                   ![c].deadline = now + JOIN_TIMEOUT,
                                   ![c].in_progress = CallsInProgress]
                            /\ UNCHANGED <<executor, shutdown_pending>>
                       ELSE /\ callers' = [callers EXCEPT
                                   ![c].pc = "drain",
                                   ![c].deadline = now + JOIN_TIMEOUT,
                                   ![c].joined = "ended",
                                   ![c].in_progress = CallsInProgress]
                            /\ Shutdown
    /\ UNCHANGED <<now, clock, py39, caller_calls, storage_vars, status, active_configs_count,
                   configurations, _thread, workers, loops, next_batch>>

\* stop_monitoring and reload_configurations up to the join inside stop()
stop_enter(c) ==
    /\ callers[c].pc = "enter"
    /\ callers[c].op \in {"stop", "reload"}
    /\ IF status # "running"
       THEN /\ Return(c, [ok |-> FALSE, msg |-> "not_running"])
            /\ UNCHANGED <<running, mon_lock, executor, shutdown_pending>>
       ELSE /\ mon_lock = None
            /\ IF ~running
               THEN /\ IF callers[c].op = "stop"
                       THEN Return(c, [ok |-> FALSE, msg |-> "stop_failed"])
                       ELSE /\ callers' = [callers EXCEPT ![c].pc = "restart"]
                            /\ UNCHANGED sched_lock
                    /\ UNCHANGED <<running, mon_lock, executor, shutdown_pending>>
               ELSE /\ running' = FALSE
                    /\ mon_lock' = c
                    /\ UNCHANGED sched_lock
                    /\ IF is_alive(_thread)
                       THEN /\ callers' = [callers EXCEPT
                                   ![c].pc = "join",
                                   ![c].deadline = now + JOIN_TIMEOUT,
                                   ![c].in_progress = CallsInProgress]
                            /\ UNCHANGED <<executor, shutdown_pending>>
                       ELSE /\ callers' = [callers EXCEPT
                                   ![c].pc = "drain",
                                   ![c].deadline = now + JOIN_TIMEOUT,
                                   ![c].joined = "ended",
                                   ![c].in_progress = CallsInProgress]
                            /\ Shutdown
    /\ UNCHANGED <<now, clock, py39, caller_calls, storage_vars, status, active_configs_count,
                   configurations, _thread, workers, loops, next_batch>>

\* a join without timeout: it returns only when the thread has ended
join_forever(c) ==
    /\ callers[c].pc = "join"
    /\ ~is_alive(_thread)
    /\ callers' = [callers EXCEPT ![c].pc = "drain", ![c].joined = "ended"]
    /\ Shutdown
    /\ UNCHANGED <<now, clock, py39, caller_calls, storage_vars, status, active_configs_count,
                   sched_lock, running, configurations, _thread, mon_lock,
                   workers, loops, next_batch>>

\* self._thread.join(timeout=10) returns: the thread ended or the time is up
join_return(c) ==
    /\ callers[c].pc = "join"
    /\ ~is_alive(_thread) \/ now >= callers[c].deadline
    /\ callers' = [callers EXCEPT
           ![c].pc = "drain",
           ![c].joined = IF is_alive(_thread) THEN "timeout" ELSE "ended"]
    /\ Shutdown
    /\ UNCHANGED <<now, clock, py39, caller_calls, storage_vars, status, active_configs_count,
                   sched_lock, running, configurations, _thread, mon_lock,
                   workers, loops, next_batch>>

\* a shutdown that does not wait for the worker threads (wait=False)
shutdown_nowait(c) ==
    /\ callers[c].pc = "drain"
    /\ executor.queue = <<>>
    /\ executor' = NoExecutor
    /\ mon_lock' = None
    /\ IF callers[c].op = "stop"
       THEN /\ status' = "stopped"
            /\ Return(c, [ok |-> TRUE, msg |-> "stopped"])
       ELSE /\ callers' = [callers EXCEPT ![c].pc = "restart"]
            /\ UNCHANGED <<status, sched_lock>>
    /\ UNCHANGED <<now, clock, py39, caller_calls, storage_vars, active_configs_count, running,
                   configurations, _thread, workers, loops, next_batch,
                   shutdown_pending>>

\* a stop() that shuts the pool down and keeps its reference
shutdown_return_keeps_pool(c) ==
    /\ callers[c].pc = "drain"
    /\ AllIdle
    /\ executor.queue = <<>>
    /\ UNCHANGED executor
    /\ mon_lock' = None
    /\ IF callers[c].op = "stop"
       THEN /\ status' = "stopped"
            /\ Return(c, [ok |-> TRUE, msg |-> "stopped"])
       ELSE /\ callers' = [callers EXCEPT ![c].pc = "restart"]
            /\ UNCHANGED <<status, sched_lock>>
    /\ UNCHANGED <<now, clock, py39, caller_calls, storage_vars, active_configs_count, running,
                   configurations, _thread, workers, loops, next_batch,
                   shutdown_pending>>

\* shutdown(wait=True) returns once every worker thread has ended; stop()
\* clears the executor and returns True
shutdown_return(c) ==
    /\ callers[c].pc = "drain"
    /\ AllIdle
    /\ executor.queue = <<>>
    /\ executor' = NoExecutor
    /\ mon_lock' = None
    /\ IF callers[c].op = "stop"
       THEN /\ status' = "stopped"
            /\ Return(c, [ok |-> TRUE, msg |-> "stopped"])
       ELSE /\ callers' = [callers EXCEPT ![c].pc = "restart"]
            /\ UNCHANGED <<status, sched_lock>>
    /\ UNCHANGED <<now, clock, py39, caller_calls, storage_vars, active_configs_count, running,
                   configurations, _thread, workers, loops, next_batch,
                   shutdown_pending>>

\* a reload that leaves status as it is when the restart fails
reload_restart_keeps_status(c, fault) ==
    /\ callers[c].pc = "restart"
    /\ LET res == StartResult({}, fault)
       IN  /\ MonitorStart({}, fault)
           /\ UNCHANGED status
           /\ IF res = "true"
              THEN /\ active_configs_count' = Cardinality(DOMAIN configurations')
                   /\ Return(c, [ok |-> TRUE, msg |-> "reloaded"])
              ELSE /\ UNCHANGED active_configs_count
                   /\ Return(c, [ok |-> FALSE,
                                 msg |-> IF res = "raised" THEN "reload_error"
                                         ELSE "reload_failed"])
    /\ UNCHANGED <<now, clock, py39, caller_calls, storage_vars, workers, next_batch, shutdown_pending>>

\* reload_configurations after stop(): self.monitor.start()
reload_restart(c, fault) ==
    /\ callers[c].pc = "restart"
    /\ LET res == StartResult({}, fault)
       IN  /\ MonitorStart({}, fault)
           /\ IF res = "true"
              THEN /\ active_configs_count' = Cardinality(DOMAIN configurations')
                   /\ UNCHANGED status
                   /\ Return(c, [ok |-> TRUE, msg |-> "reloaded"])
              ELSE /\ status' = "stopped"
                   /\ UNCHANGED active_configs_count
                   /\ Return(c, [ok |-> FALSE,
                                 msg |-> IF res = "raised" THEN "reload_error"
                                         ELSE "reload_failed"])
    /\ UNCHANGED <<now, clock, py39, caller_calls, storage_vars, workers, next_batch, shutdown_pending>>


(***************************************************************************)
(* The coordinating loop, WebServiceMonitor._monitoring_loop.              *)
(***************************************************************************)
\* _get_next_minute_mark: (now + 1 minute) with second = 0
_get_next_minute_mark(t) == ((t \div 60) + 1) * 60

\* the keys of a dict in its iteration order (rows come ordered from storage)
RECURSIVE KeysInOrder(_)
KeysInOrder(S) ==
    IF S = {} THEN <<>>
    ELSE LET m == CHOOSE x \in S : \A y \in S : x <= y
         IN  <<m>> \o KeysInOrder(S \ {m})

\* _should_call_now without its monitoring-hours test
ShouldCallNowAnyHour(config, t) ==
    IF config.call_interval = 0 THEN "raise"
    ELSE IF SecondOf(t) % (IF config.call_interval < 0
                           THEN 0 - config.call_interval
                           ELSE config.call_interval) = 0 THEN "true"
    ELSE "false"

\* _should_call_now at time t; "raise" is the ZeroDivisionError of interval 0
_should_call_now(config, t) ==
    IF ~_is_in_monitoring_hours(config.monitoring_hours, HourOf(t)) THEN "false"
    ELSE IF config.call_interval = 0 THEN "raise"
    ELSE IF SecondOf(t) % (IF config.call_interval < 0
                           THEN 0 - config.call_interval
                           ELSE config.call_interval) = 0 THEN "true"
    ELSE "false"

\* the configurations the for loop of one tick submits, in order
DueNow(t) ==
    LET keys == KeysInOrder(DOMAIN configurations)
        IsDue(k) == _should_call_now(configurations[k], t) = "true"
        due == SelectSeq(keys, IsDue)
    IN  [j \in 1..Len(due) |-> configurations[due[j]]]

\* submit that drops the batches when every worker of the pool is busy
SubmitUnlessSaturated(ex, cfgs) ==
    IF \A w \in WorkerIds : workers[w].pc # "idle" THEN ex
    ELSE [ex EXCEPT !.queue = @ \o [j \in 1..Len(cfgs) |->
                                  [batch |-> next_batch + j - 1, config |-> cfgs[j]]]]

\* self.executor.submit(self.batch_call_webservice, config), for each of cfgs
Submit(ex, cfgs) ==
    [ex EXCEPT !.queue = @ \o [j \in 1..Len(cfgs) |->
                                  [batch |-> next_batch + j - 1, config |-> cfgs[j]]]]

\* statistics that count every status below 300 as a success
StatsRowsBelow300(t) ==
    LET keys == KeysInOrder(DOMAIN configurations)
        Rows(cid) == {r \in call_details :
                         r.config_id = cid /\ r.ts >= t - 60 /\ r.ts <= t}
        HasRows(cid) == Rows(cid) # {}
        with == SelectSeq(keys, HasRows)
    IN  [j \in 1..Len(with) |->
            [config_id |-> with[j], start_time |-> t - 60, end_time |-> t,
             call_count |-> Cardinality(Rows(with[j])),
             success_count |-> Cardinality({r \in Rows(with[j]) :
                                  r.status_code < 300})]]

\* statistics that write a row for every configuration, calls or not
StatsRowsForAll(t) ==
    LET keys == KeysInOrder(DOMAIN configurations)
        Rows(cid) == {r \in call_details :
                         r.config_id = cid /\ r.ts >= t - 60 /\ r.ts <= t}
    IN  [j \in 1..Len(keys) |->
            [config_id |-> keys[j], start_time |-> t - 60, end_time |-> t,
             call_count |-> Cardinality(Rows(keys[j])),
             success_count |-> Cardinality({r \in Rows(keys[j]) :
                                  200 <= r.status_code /\ r.status_code < 300})]]

\* calculate_minute_stats() at time t: one row per configuration that has
\* call_details rows with t - 60 <= timestamp <= t
StatsRows(t) ==
    LET keys == KeysInOrder(DOMAIN configurations)
        Rows(cid) == {r \in call_details :
                         r.config_id = cid /\ r.ts >= t - 60 /\ r.ts <= t}
        HasRows(cid) == Rows(cid) # {}
        with == SelectSeq(keys, HasRows)
    IN  [j \in 1..Len(with) |->
            [config_id |-> with[j], start_time |-> t - 60, end_time |-> t,
             call_count |-> Cardinality(Rows(with[j])),
             success_count |-> Cardinality({r \in Rows(with[j]) :
                                  200 <= r.status_code /\ r.status_code < 300})]]

\* error_count of loop thread i when it is back at the while test: the
\* except branch sets it to 0 after its sleep of BACKOFF_SLEEP
ErrorsAfterSleep(i) ==
    IF loops[i].pc = "except" /\ loops[i].errors > ERROR_LIMIT THEN 0
    ELSE loops[i].errors

\* from the top of an iteration to the acquisition of the lock: the while
\* test, and the statistics when the minute mark has passed
LoopHead(i) ==
    /\ loops[i].pc \in {"new", "head", "except"}
    /\ now >= loops[i].wake
    /\ LET mark == IF loops[i].pc = "new" THEN _get_next_minute_mark(now)
                   ELSE loops[i].mark
       IN  IF ~running
           THEN /\ loops' = [loops EXCEPT ![i] = [pc |-> "dead"]]
                /\ UNCHANGED minute_stats
           ELSE IF now >= mark
           THEN /\ minute_stats' = minute_stats \o StatsRows(now)
                /\ loops' = [loops EXCEPT ![i] =
                       [pc |-> "lock", mark |-> _get_next_minute_mark(now), wake |-> 0,
                        errors |-> ErrorsAfterSleep(i)]]
           ELSE /\ UNCHANGED minute_stats
                /\ loops' = [loops EXCEPT ![i] =
                       [pc |-> "lock", mark |-> mark, wake |-> 0,
                        errors |-> ErrorsAfterSleep(i)]]
    /\ UNCHANGED <<now, clock, py39, caller_calls, db_configurations, db_active, call_details,
                   alerts, sched_vars, monitor_vars, workers, next_batch,
                   shutdown_pending>>

\* the block under the lock without its second test of self.running
LoopDispatchNoRecheck(i) ==
    /\ loops[i].pc = "lock"
    /\ mon_lock = None
    /\ LET ex == IF executor.none \/ executor.shutdown
                 THEN NewExecutor ELSE executor
           due == DueNow(now)
       IN  /\ next_batch + Len(due) - 1 <= MaxBatches
           /\ executor' = Submit(ex, due)
           /\ next_batch' = next_batch + Len(due)
           /\ loops' = [loops EXCEPT ![i].pc = "head",
                                     ![i].wake = now + TICK_SLEEP,
                                     ![i].errors = 0]
    /\ UNCHANGED <<now, clock, py39, caller_calls, storage_vars, sched_vars, running, configurations,
                   _thread, mon_lock, workers, shutdown_pending>>

\* a loop that ends after the tick in which it has submitted a batch
LoopDispatchOnce(i) ==
    /\ loops[i].pc = "lock"
    /\ mon_lock = None
    /\ IF ~running
       THEN /\ loops' = [loops EXCEPT ![i] = [pc |-> "dead"]]
            /\ UNCHANGED <<executor, next_batch>>
       ELSE LET ex == IF executor.none \/ executor.shutdown
                      THEN NewExecutor ELSE executor
                due == DueNow(now)
            IN  /\ next_batch + Len(due) - 1 <= MaxBatches
                /\ executor' = Submit(ex, due)
                /\ next_batch' = next_batch + Len(due)
                /\ loops' = IF Len(due) > 0
                            THEN [loops EXCEPT ![i] = [pc |-> "dead"]]
                            ELSE [loops EXCEPT ![i].pc = "head",
                                               ![i].wake = now + TICK_SLEEP,
                                               ![i].errors = 0]
    /\ UNCHANGED <<now, clock, py39, caller_calls, storage_vars, sched_vars, running, configurations,
                   _thread, mon_lock, workers, shutdown_pending>>

\* the block under "with self._lock" and the sleep that follows it
LoopDispatch(i) ==
    /\ loops[i].pc = "lock"
    /\ mon_lock = None
    /\ IF ~running
       THEN /\ loops' = [loops EXCEPT ![i] = [pc |-> "dead"]]
            /\ UNCHANGED <<executor, next_batch>>
       ELSE LET ex == IF executor.none \/ executor.shutdown
                      THEN NewExecutor ELSE executor
                due == DueNow(now)
            IN  /\ next_batch + Len(due) - 1 <= MaxBatches
                /\ executor' = Submit(ex, due)
                /\ next_batch' = next_batch + Len(due)
                /\ loops' = [loops EXCEPT ![i].pc = "head",
                                          ![i].wake = now + TICK_SLEEP,
                                          ![i].errors = 0]
    /\ UNCHANGED <<now, clock, py39, caller_calls, storage_vars, sched_vars, running, configurations,
                   _thread, mon_lock, workers, shutdown_pending>>

\* an exception that ends the loop thread
LoopFailDies(i) ==
    /\ \/ /\ loops[i].pc \in {"new", "head", "except"}
          /\ now >= loops[i].wake
          /\ running
       \/ loops[i].pc = "lock"
    /\ loops' = [loops EXCEPT ![i] = [pc |-> "dead"]]
    /\ UNCHANGED <<now, clock, py39, caller_calls, storage_vars, sched_vars,
                   monitor_vars, workers, next_batch, shutdown_pending>>

\* an except branch that pauses once error_count has reached the limit
LoopFailAtLimit(i) ==
    /\ \/ /\ loops[i].pc \in {"new", "head", "except"}
          /\ now >= loops[i].wake
          /\ running
       \/ loops[i].pc = "lock"
    /\ LET count == ErrorsAfterSleep(i) + 1
           mark == IF loops[i].pc = "new" THEN _get_next_minute_mark(now)
                   ELSE loops[i].mark
       IN  loops' = [loops EXCEPT ![i] =
               [pc |-> "except", mark |-> mark, errors |-> count,
                wake |-> now + (IF count >= ERROR_LIMIT THEN BACKOFF_SLEEP
                                ELSE ERROR_SLEEP)]]
    /\ UNCHANGED <<now, clock, py39, caller_calls, storage_vars, sched_vars,
                   monitor_vars, workers, next_batch, shutdown_pending>>

\* an exception raised inside the try of an iteration, before the lock is
\* taken, reaches "except Exception": it is counted and the thread sleeps,
\* ERROR_SLEEP seconds, or BACKOFF_SLEEP once the count exceeds ERROR_LIMIT
LoopFail(i) ==
    /\ \/ /\ loops[i].pc \in {"new", "head", "except"}
          /\ now >= loops[i].wake
          /\ running
       \/ loops[i].pc = "lock"
    /\ LET count == ErrorsAfterSleep(i) + 1
           mark == IF loops[i].pc = "new" THEN _get_next_minute_mark(now)
                   ELSE loops[i].mark
       IN  loops' = [loops EXCEPT ![i] =
               [pc |-> "except", mark |-> mark, errors |-> count,
                wake |-> now + (IF count > ERROR_LIMIT THEN BACKOFF_SLEEP
                                ELSE ERROR_SLEEP)]]
    /\ UNCHANGED <<now, clock, py39, caller_calls, storage_vars, sched_vars,
                   monitor_vars, workers, next_batch, shutdown_pending>>

(***************************************************************************)
(* The worker threads of the pool running batch_call_webservice.           *)
(***************************************************************************)
\* What the transport gives a probe: a response with its status code, or an
\* exception (timeout, connection error, any other) with its text str(e);
\* elapsed is the time the request took as call_webservice measures it, in
\* seconds (it is an input like the status, not read from the model's clock).
Response(code, elapsed) ==
    [kind |-> "response", status |-> code, text |-> None, elapsed |-> elapsed]

Failure(kind, text, elapsed) ==
    [kind |-> kind, status |-> 0, text |-> text, elapsed |-> elapsed]

\* the transport outcomes in the behaviours of Spec
Outcomes == {Response(200, 2)}

\* the transport outcomes in the behaviours of ProbeSpec
ProbeOutcomes ==
    {Response(200, 2), Response(200, 3), Response(500, 2), Response(500, 3),
     Response(799, 2),
     Failure("timeout", "read timed out", 3),
     Failure("connection", "connection refused", 2),
     Failure("other", "", 2)}

\* a call_webservice that records the error text but leaves status_code as
\* the dataclass made it
CallDetailOfNoSentinel(config, ts, o) ==
    [config_id |-> config.id, ts |-> ts,
     response_time |-> o.elapsed,
     status_code |-> IF o.kind = "response" THEN o.status ELSE 0,
     error_message |-> IF o.kind = "response" THEN None ELSE o.text]

\* the CallDetail of call_webservice (without the key of the call) for a
\* request begun at ts that ended with outcome o
CallDetailOf(config, ts, o) ==
    [config_id |-> config.id, ts |-> ts,
     response_time |-> o.elapsed,
     status_code |-> IF o.kind = "response" THEN o.status ELSE -1,
     error_message |-> IF o.kind = "response" THEN None ELSE o.text]

\* the texts WebServiceCaller.call gives its fixed failures
TIMEOUT_TEXT == "timeout"

CONNECTION_TEXT == "connection error"

\* the CallDetail of WebServiceCaller.call
WebServiceCaller_call(config, ts, o) ==
    [config_id |-> config.id, ts |-> ts,
     response_time |-> o.elapsed,
     status_code |-> IF o.kind = "response" THEN o.status ELSE -1,
     error_message |-> CASE o.kind = "response" -> None
                         [] o.kind = "timeout" -> TIMEOUT_TEXT
                         [] o.kind = "connection" -> CONNECTION_TEXT
                         [] OTHER -> o.text]

\* CallDetail.is_success
is_success(detail) == 200 <= detail.status_code /\ detail.status_code < 300

\* an evaluator that tests availability and performance independently
AlertsForEach(config, detail) ==
    {[config_id |-> config.id, type |-> "availability"] : x \in
        IF ~is_success(detail) THEN {1} ELSE {}}
    \cup
    {[config_id |-> config.id, type |-> "performance"] : x \in
        IF detail.response_time > config.alert_threshold THEN {1} ELSE {}}

\* the alerts call_webservice creates for a saved call: at most one
AlertsFor(config, detail) ==
    IF ~is_success(detail) \/ detail.response_time > config.alert_threshold
    THEN {[config_id |-> config.id,
           type |-> IF ~is_success(detail) THEN "availability" ELSE "performance"]}
    ELSE {}

\* a batch that trusts the test the loop made when it submitted it
WorkerStartNoHoursTest(w) ==
    /\ workers[w].pc = "idle"
    /\ Len(executor.queue) > 0
    /\ LET item == Head(executor.queue)
       IN  /\ executor' = [executor EXCEPT !.queue = Tail(@)]
           /\ workers' = [workers EXCEPT ![w] =
                  IF item.config.calls_per_batch > 0
                  THEN [pc |-> "call", batch |-> item.batch, config |-> item.config,
                        n |-> 1, ts |-> now]
                  ELSE Idle]
    /\ UNCHANGED <<now, clock, py39, caller_calls, storage_vars, sched_vars, running,
                   configurations, _thread, mon_lock, loops, next_batch,
                   shutdown_pending>>

\* a worker takes the next queued batch and starts it: the monitoring-hours
\* test, then the first call
WorkerStart(w) ==
    /\ workers[w].pc = "idle"
    /\ Len(executor.queue) > 0
    /\ LET item == Head(executor.queue)
       IN  /\ executor' = [executor EXCEPT !.queue = Tail(@)]
           /\ workers' = [workers EXCEPT ![w] =
                  IF /\ _is_in_monitoring_hours(item.config.monitoring_hours, HourOf(now))
                     /\ item.config.calls_per_batch > 0
                  THEN [pc |-> "call", batch |-> item.batch, config |-> item.config,
                        n |-> 1, ts |-> now]
                  ELSE Idle]
    /\ UNCHANGED <<now, clock, py39, caller_calls, storage_vars, sched_vars, running, configurations,
                   _thread, mon_lock, loops, next_batch, shutdown_pending>>

\* the key of the call a worker is in: batch and number in the batch
CallKey(w) == [batch |-> workers[w].batch, n |-> workers[w].n]

\* the rows one finished call adds to call_details and to alerts
SavedDetail(w, o) ==
    {CallKey(w) @@ CallDetailOf(workers[w].config, workers[w].ts, o)}

\* alerts that are suppressed while the target has one of the same type
SavedAlertsSuppressed(w, o) ==
    {CallKey(w) @@ a :
        a \in {b \in AlertsFor(workers[w].config,
                               CallDetailOf(workers[w].config, workers[w].ts, o)) :
                  ~\E old \in alerts : old.config_id = b.config_id /\ old.type = b.type}}

SavedAlerts(w, o) ==
    {CallKey(w) @@ a :
        a \in AlertsFor(workers[w].config,
                        CallDetailOf(workers[w].config, workers[w].ts, o))}

\* a call that is abandoned, without a row, once the pool has been shut down
WorkerCallCancellable(w, o) ==
    /\ workers[w].pc = "call"
    /\ IF executor.shutdown
       THEN /\ workers' = [workers EXCEPT ![w] = Idle]
            /\ UNCHANGED <<call_details, alerts>>
       ELSE /\ call_details' = call_details \cup SavedDetail(w, o)
            /\ alerts' = alerts \cup SavedAlerts(w, o)
            /\ workers' = [workers EXCEPT ![w].pc = "pause"]
    /\ UNCHANGED <<now, clock, py39, caller_calls, db_configurations, db_active, minute_stats,
                   sched_vars, monitor_vars, loops, next_batch, shutdown_pending>>

\* a call_webservice that handles the transport errors it knows and lets any
\* other exception out: batch_call_webservice logs it and goes on
WorkerFinishCallPropagates(w, o) ==
    /\ workers[w].pc = "call"
    /\ IF o.kind = "other"
       THEN UNCHANGED <<call_details, alerts>>
       ELSE /\ call_details' = call_details \cup SavedDetail(w, o)
            /\ alerts' = alerts \cup SavedAlerts(w, o)
    /\ workers' = [workers EXCEPT ![w].pc = "pause"]
    /\ UNCHANGED <<now, clock, py39, caller_calls, db_configurations, db_active, minute_stats,
                   sched_vars, monitor_vars, loops, next_batch, shutdown_pending>>

\* the request of call_webservice ends with outcome o: the row is saved and
\* the alert, if one is due, created
WorkerFinishCall(w, o) ==
    /\ workers[w].pc = "call"
    /\ call_details' = call_details \cup SavedDetail(w, o)
    /\ alerts' = alerts \cup SavedAlerts(w, o)
    /\ workers' = [workers EXCEPT ![w].pc = "pause"]
    /\ UNCHANGED <<now, clock, py39, caller_calls, db_configurations, db_active, minute_stats,
                   sched_vars, monitor_vars, loops, next_batch, shutdown_pending>>

\* a batch that returns after its first call
WorkerResumeOnce(w) ==
    /\ workers[w].pc = "pause"
    /\ workers' = [workers EXCEPT ![w] = Idle]
    /\ UNCHANGED <<now, clock, py39, caller_calls, storage_vars, sched_vars,
                   monitor_vars, loops, next_batch, shutdown_pending>>

\* after time.sleep(0.2): the next call of the batch, or the batch returns
WorkerResume(w) ==
    /\ workers[w].pc = "pause"
    /\ workers' = [workers EXCEPT ![w] =
           IF workers[w].n < workers[w].config.calls_per_batch
           THEN [@ EXCEPT !.pc = "call", !.n = @ + 1, !.ts = now]
           ELSE Idle]
    /\ UNCHANGED <<now, clock, py39, caller_calls, storage_vars, sched_vars, monitor_vars, loops,
                   next_batch, shutdown_pending>>

(***************************************************************************)
(* The registry is edited while the monitor runs (the configuration        *)
(* commands of the command line, through the repository).                  *)
(***************************************************************************)
\* repository.toggle_configuration(config_id=id, active=active)
toggle_configuration(id, active) ==
    /\ db_active' = IF active THEN db_active \cup {id} ELSE db_active \ {id}
    /\ db_active' # db_active
    /\ UNCHANGED <<now, clock, py39, caller_calls, db_configurations, call_details, minute_stats,
                   alerts, sched_vars, monitor_vars, workers, loops, next_batch,
                   shutdown_pending>>

(***************************************************************************)
(* Time passes.                                                            *)
(***************************************************************************)
Tick ==
    /\ clock.ticks < MaxTicks
    /\ now' = now + clock.step
    /\ clock' = [clock EXCEPT !.ticks = @ + 1]
    /\ UNCHANGED <<py39, caller_calls, storage_vars, sched_vars, monitor_vars, workers,
                   loops,
                   next_batch, shutdown_pending>>

\* time passes while the loop sleeps after failed iterations
FaultTick ==
    /\ clock.ticks < MaxFaultTicks
    /\ now' = now + clock.step
    /\ clock' = [clock EXCEPT !.ticks = @ + 1]
    /\ UNCHANGED <<py39, caller_calls, storage_vars, sched_vars, monitor_vars, workers,
                   loops, next_batch, shutdown_pending>>

Next ==
    \/ \E c \in Callers : \E arg \in StartArgs : Call(c, "start", arg)
    \/ \E c \in Callers : \E op \in Ops \ {"start"} : Call(c, op, {})
    \/ \E c \in Callers : Release(c)
    \/ \E c \in Callers : \E fault \in BOOLEAN : start_monitoring(c, fault)
    \/ \E c \in Callers : get_status(c)
    \/ \E c \in Callers : stop_enter(c)
    \/ \E c \in Callers : join_return(c)
    \/ \E c \in Callers : shutdown_return(c)
    \/ \E c \in Callers : \E fault \in BOOLEAN : reload_restart(c, fault)
    \/ \E i \in LoopIds : LoopHead(i)
    \/ \E i \in LoopIds : LoopDispatch(i)
    \/ \E w \in WorkerIds : WorkerStart(w)
    \/ \E w \in WorkerIds : \E sc \in Outcomes : WorkerFinishCall(w, sc)
    \/ \E w \in WorkerIds : WorkerResume(w)
    \/ Tick

Spec == Init /\ [][Next]_vars

\* The progress the interpreter's threads and the clock make: time passes, a
\* thread that can take its next step takes it, a probe call ends.
Fairness ==
    /\ WF_vars(Tick)
    /\ WF_vars(\E c \in Callers : join_return(c) \/ shutdown_return(c))
    /\ WF_vars(\E w \in WorkerIds :
                  \/ WorkerStart(w)
                  \/ WorkerResume(w)
                  \/ \E sc \in Outcomes : WorkerFinishCall(w, sc))

\* The behaviours in which one client drives the scheduler on the first
\* table, all its rows active, calling Start without ids, with the clock that
\* reaches the end of a join timeout.  (While a Stop runs it holds the
\* scheduler's lock, so a second client could not act during it anyway.)
FairInit ==
    /\ Init
    /\ clock.step = JOIN_TIMEOUT
    /\ db_active = {1, 2}
    /\ db_configurations[1].calls_per_batch = 2

FairNext ==
    /\ Next
    /\ callers'["c2"] = callers["c2"]
    /\ callers'["c1"].arg = {}

FairSpec == FairInit /\ [][FairNext]_vars /\ Fairness

\* The behaviours on the first table, rows 1 and 2 active at first, in which
\* rows are switched off while the monitor runs.
ReloadInit ==
    /\ Init
    /\ py39
    /\ db_active = {1, 2}
    /\ db_configurations[1].calls_per_batch = 2

ReloadNext ==
    \/ Next
    \/ \E id \in Ids : toggle_configuration(id, FALSE)

ReloadSpec == ReloadInit /\ [][ReloadNext]_vars

\* The behaviours on the one-second clock, rows 1 and 2 active, in which a
\* probe may end with any of the transport outcomes.
ProbeInit ==
    /\ Init
    /\ clock.step = TICK_SLEEP
    /\ py39
    /\ db_active = {1, 2}

ProbeNext ==
    \/ Next
    \/ \E w \in WorkerIds : \E o \in ProbeOutcomes : WorkerFinishCall(w, o)

ProbeSpec == ProbeInit /\ [][ProbeNext]_vars

(***************************************************************************)
(* Storage that fails on a write.  repository.save_call_detail and         *)
(* repository.create_alert open a connection, INSERT and commit; an        *)
(* exception of any of the three leaves no row.  call_webservice runs the   *)
(* two writes inside one try whose except logs the exception.              *)
(***************************************************************************)
\* the write of call_webservice that raises
StorageFaults == {"save_call_detail", "create_alert"}

\* a write whose exception leaves call_webservice and ends the batch
WorkerFinishCallFaultEndsBatch(w, o, failing) ==
    /\ workers[w].pc = "call"
    /\ failing \in StorageFaults
    /\ failing = "create_alert" => SavedAlerts(w, o) # {}
    /\ call_details' = IF failing = "save_call_detail" THEN call_details
                       ELSE call_details \cup SavedDetail(w, o)
    /\ UNCHANGED alerts
    /\ workers' = [workers EXCEPT ![w] = Idle]
    /\ UNCHANGED <<now, clock, py39, caller_calls, db_configurations, db_active, minute_stats,
                   sched_vars, monitor_vars, loops, next_batch, shutdown_pending>>

\* a call_webservice that creates the alert before it saves the call
WorkerFinishCallAlertFirst(w, o, failing) ==
    /\ workers[w].pc = "call"
    /\ failing \in StorageFaults
    /\ failing = "create_alert" => SavedAlerts(w, o) # {}
    /\ UNCHANGED call_details
    /\ alerts' = IF failing = "save_call_detail" THEN alerts \cup SavedAlerts(w, o)
                 ELSE alerts
    /\ workers' = [workers EXCEPT ![w].pc = "pause"]
    /\ UNCHANGED <<now, clock, py39, caller_calls, db_configurations, db_active, minute_stats,
                   sched_vars, monitor_vars, loops, next_batch, shutdown_pending>>

\* the request of call_webservice ends with outcome o and the write named
\* failing raises: save_call_detail leaves no row and the alert test is never
\* reached; create_alert (called only when an alert is due) leaves the
\* call_details row without its alert.  The except branch logs and
\* call_webservice returns the CallDetail to the batch.
WorkerFinishCallFault(w, o, failing) ==
    /\ workers[w].pc = "call"
    /\ failing \in StorageFaults
    /\ failing = "create_alert" => SavedAlerts(w, o) # {}
    /\ call_details' = IF failing = "save_call_detail" THEN call_details
                       ELSE call_details \cup SavedDetail(w, o)
    /\ UNCHANGED alerts
    /\ workers' = [workers EXCEPT ![w].pc = "pause"]
    /\ UNCHANGED <<now, clock, py39, caller_calls, db_configurations, db_active, minute_stats,
                   sched_vars, monitor_vars, loops, next_batch, shutdown_pending>>

\* the transport outcomes in the behaviours of StoreSpec: a fast success, a
\* slow success and a server error
StoreOutcomes == {Response(200, 2), Response(200, 3), Response(500, 2)}

\* The behaviours on the ten-second clock, rows 1 and 2 active (target 1 of
\* the first table makes two calls per batch), in which one client starts and
\* stops the monitor and either write of a call may fail.
StoreInit ==
    /\ Init
    /\ clock.step = JOIN_TIMEOUT
    /\ py39
    /\ db_active = {1, 2}

StoreNext ==
    \/ \E op \in {"start", "stop"} : Call("c1", op, {})
    \/ Release("c1")
    \/ start_monitoring("c1", FALSE)
    \/ stop_enter("c1")
    \/ join_return("c1")
    \/ shutdown_return("c1")
    \/ \E i \in LoopIds : LoopHead(i)
    \/ \E i \in LoopIds : LoopDispatch(i)
    \/ \E w \in WorkerIds : WorkerStart(w)
    \/ \E w \in WorkerIds : \E o \in StoreOutcomes : WorkerFinishCall(w, o)
    \/ \E w \in WorkerIds : \E o \in StoreOutcomes : \E failing \in StorageFaults :
          WorkerFinishCallFault(w, o, failing)
    \/ \E w \in WorkerIds : WorkerResume(w)
    \/ Tick

StoreSpec == StoreInit /\ [][StoreNext]_vars

(***************************************************************************)
(* The behaviours in which the monitoring-hours test is applied to many    *)
(* texts at every hour of the day: one client starts the monitor on a      *)
(* table whose rows carry the text, the loop submits and a worker runs the *)
(* batch.  Time stands still.                                              *)
(***************************************************************************)
\* the hours the texts are built from
HourSample == {0, 3, 6, 9, 10, 17, 22, 23}

\* str(n) of an hour n
HourText(n) ==
    IF n < 10 THEN <<Digits[n + 1]>>
    ELSE <<Digits[(n \div 10) + 1], Digits[(n % 10) + 1]>>

\* the texts "a-b" and "a", each with the numbers it was written from
WellFormedHours ==
    {[kind |-> "range", a |-> a, b |-> b,
      text |-> HourText(a) \o <<"-">> \o HourText(b)] : a, b \in HourSample}
    \cup
    {[kind |-> "single", a |-> a, b |-> a, text |-> HourText(a)] : a \in HourSample}

\* texts that are neither one integer nor two integers separated by "-":
\* empty, not a number, a missing part, three parts, and the NULL column
MalformedHours ==
    {[kind |-> "malformed", a |-> 0, b |-> 0, text |-> t] :
        t \in {<<>>, <<"x">>, <<"9", "-">>, <<"-">>, <<"9", "-", "x">>,
               <<"x", "-", "1", "7">>, <<"1", "-", "2", "-", "3">>,
               <<"9", " ", "1", "7">>, NoneStr}}

HoursInputs == WellFormedHours \cup MalformedHours

HoursTables ==
    {[i \in Ids |-> Config(i, 1, 1, x.text)] : x \in HoursInputs}

HoursInit ==
    /\ \E h \in 0..23 : now = h * 3600
    /\ clock = [step |-> TICK_SLEEP, ticks |-> 0]
    /\ py39 = TRUE
    /\ caller_calls = 0
    /\ db_configurations \in HoursTables
    /\ db_active = {1}
    /\ call_details = {}
    /\ minute_stats = <<>>
    /\ alerts = {}
    /\ status = "stopped"
    /\ active_configs_count = 0
    /\ sched_lock = None
    /\ callers = [c \in Callers |-> IdleCaller]
    /\ running = FALSE
    /\ configurations = EmptyDict
    /\ executor = NoExecutor
    /\ workers = [w \in WorkerIds |-> Idle]
    /\ _thread = 0
    /\ mon_lock = None
    /\ loops = [i \in LoopIds |-> NoLoop]
    /\ next_batch = 1
    /\ shutdown_pending = {}

HoursNext ==
    \/ Call("c1", "start", {})
    \/ start_monitoring("c1", FALSE)
    \/ Release("c1")
    \/ \E i \in LoopIds : LoopHead(i)
    \/ \E i \in LoopIds : LoopDispatch(i)
    \/ \E w \in WorkerIds : WorkerStart(w)
    \/ \E w \in WorkerIds : \E o \in Outcomes : WorkerFinishCall(w, o)
    \/ \E w \in WorkerIds : WorkerResume(w)

HoursSpec == HoursInit /\ [][HoursNext]_vars

(***************************************************************************)
(* The behaviours that begin at 06:59:40 on the ten-second clock, rows 1   *)
(* and 2 active: a join timeout of stop() ends before the minute does.     *)
(***************************************************************************)
BoundaryInit ==
    /\ now = 6 * 3600 + 59 * 60 + 40
    /\ clock = [step |-> JOIN_TIMEOUT, ticks |-> 0]
    /\ py39 = TRUE
    /\ caller_calls = 0
    /\ db_configurations \in ConfigTables
    /\ db_active = {1, 2}
    /\ call_details = {}
    /\ minute_stats = <<>>
    /\ alerts = {}
    /\ status = "stopped"
    /\ active_configs_count = 0
    /\ sched_lock = None
    /\ callers = [c \in Callers |-> IdleCaller]
    /\ running = FALSE
    /\ configurations = EmptyDict
    /\ executor = NoExecutor
    /\ workers = [w \in WorkerIds |-> Idle]
    /\ _thread = 0
    /\ mon_lock = None
    /\ loops = [i \in LoopIds |-> NoLoop]
    /\ next_batch = 1
    /\ shutdown_pending = {}

BoundarySpec == BoundaryInit /\ [][Next]_vars

(***************************************************************************)
(* The behaviours in which iterations of the loop fail: one client starts  *)
(* and stops the monitor, target 2 of the first table alone is active      *)
(* (hours "7": nothing is due before 07:00:00), and the clock runs from     *)
(* 06:59:00 in steps of ERROR_SLEEP.                                        *)
(***************************************************************************)
FaultInit ==
    /\ now = 6 * 3600 + 59 * 60
    /\ clock = [step |-> ERROR_SLEEP, ticks |-> 0]
    /\ py39 = TRUE
    /\ caller_calls = 0
    /\ db_configurations \in ConfigTables
    /\ db_configurations[2].monitoring_hours = <<"7">>
    /\ db_active = {2}
    /\ call_details = {}
    /\ minute_stats = <<>>
    /\ alerts = {}
    /\ status = "stopped"
    /\ active_configs_count = 0
    /\ sched_lock = None
    /\ callers = [c \in Callers |-> IdleCaller]
    /\ running = FALSE
    /\ configurations = EmptyDict
    /\ executor = NoExecutor
    /\ workers = [w \in WorkerIds |-> Idle]
    /\ _thread = 0
    /\ mon_lock = None
    /\ loops = [i \in LoopIds |-> NoLoop]
    /\ next_batch = 1
    /\ shutdown_pending = {}

FaultNext ==
    \/ \E op \in {"start", "stop"} : Call("c1", op, {})
    \/ Release("c1")
    \/ start_monitoring("c1", FALSE)
    \/ stop_enter("c1")
    \/ join_return("c1")
    \/ shutdown_return("c1")
    \/ \E i \in LoopIds : LoopHead(i)
    \/ \E i \in LoopIds : LoopDispatch(i)
    \/ \E i \in LoopIds : LoopFail(i)
    \/ \E w \in WorkerIds : WorkerStart(w)
    \/ \E w \in WorkerIds : \E o \in Outcomes : WorkerFinishCall(w, o)
    \/ \E w \in WorkerIds : WorkerResume(w)
    \/ FaultTick

FaultSpec == FaultInit /\ [][FaultNext]_vars

\* The progress of time and of a loop thread that is at the top of its
\* iteration with its sleep over: it makes the while test and goes on.
FaultFairness ==
    /\ WF_vars(FaultTick)
    /\ \A i \in LoopIds : WF_vars(LoopHead(i))

\* the behaviours of FaultSpec with a single Start
FairFaultNext ==
    /\ FaultNext
    /\ loops'[2] = loops[2]

FairFaultSpec == FaultInit /\ [][FairFaultNext]_vars /\ FaultFairness


\* The progress of time and of a loop thread: once its sleep is over it makes
\* the while test, and it takes the monitor's lock when the lock is free.
LoopFairness ==
    /\ WF_vars(Tick)
    /\ \A i \in LoopIds : WF_vars(LoopHead(i)) /\ WF_vars(LoopDispatch(i))

\* The behaviours in which one client starts the monitor once, on all the
\* active targets, and stops it, on the ten-second clock from 06:59:50.
LoopFairNext ==
    /\ \/ \E op \in {"start", "stop"} : Call("c1", op, {})
       \/ Release("c1")
       \/ start_monitoring("c1", FALSE)
       \/ stop_enter("c1")
       \/ join_return("c1")
       \/ shutdown_return("c1")
       \/ \E i \in LoopIds : LoopHead(i)
       \/ \E i \in LoopIds : LoopDispatch(i)
       \/ \E w \in WorkerIds : WorkerStart(w)
       \/ \E w \in WorkerIds : \E o \in Outcomes : WorkerFinishCall(w, o)
       \/ \E w \in WorkerIds : WorkerResume(w)
       \/ Tick
    /\ loops'[2] = loops[2]

LoopFairSpec == FairInit /\ [][LoopFairNext]_vars /\ LoopFairness

(***************************************************************************)
(* Faults tied to one target.  _should_call_now raises ZeroDivisionError    *)
(* for a row whose call_interval is 0, inside the try the for loop of a    *)
(* tick has around each target (DueNow leaves that target out and goes     *)
(* on).  calculate_minute_stats has a try around the query, the row and    *)
(* the save of each target: an exception there is logged and the for loop  *)
(* goes on with the next target.                                           *)
(***************************************************************************)
\* an aggregation that the exception of target `bad` ends: the targets after
\* it get no row
StatsRowsUntilFault(t, bad) ==
    LET keys == KeysInOrder({k \in DOMAIN configurations : k < bad})
        Rows(cid) == {r \in call_details :
                         r.config_id = cid /\ r.ts >= t - 60 /\ r.ts <= t}
        HasRows(cid) == Rows(cid) # {}
        with == SelectSeq(keys, HasRows)
    IN  [j \in 1..Len(with) |->
            [config_id |-> with[j], start_time |-> t - 60, end_time |-> t,
             call_count |-> Cardinality(Rows(with[j])),
             success_count |-> Cardinality({r \in Rows(with[j]) :
                                  200 <= r.status_code /\ r.status_code < 300})]]

\* calculate_minute_stats() at time t when the query or the save of target
\* `bad` raises: the rows of the other targets
StatsRowsExcept(t, bad) ==
    LET keys == KeysInOrder(DOMAIN configurations \ {bad})
        Rows(cid) == {r \in call_details :
                         r.config_id = cid /\ r.ts >= t - 60 /\ r.ts <= t}
        HasRows(cid) == Rows(cid) # {}
        with == SelectSeq(keys, HasRows)
    IN  [j \in 1..Len(with) |->
            [config_id |-> with[j], start_time |-> t - 60, end_time |-> t,
             call_count |-> Cardinality(Rows(with[j])),
             success_count |-> Cardinality({r \in Rows(with[j]) :
                                  200 <= r.status_code /\ r.status_code < 300})]]

\* the top of an iteration at or after the minute mark in which the
\* aggregation of target `bad` fails: calculate_minute_stats returns
\* normally, stats_calculated is set and the mark moves on
LoopHeadStatsFault(i, bad) ==
    /\ loops[i].pc \in {"new", "head", "except"}
    /\ now >= loops[i].wake
    /\ running
    /\ bad \in DOMAIN configurations
    /\ now >= (IF loops[i].pc = "new" THEN _get_next_minute_mark(now)
               ELSE loops[i].mark)
    /\ minute_stats' = minute_stats \o StatsRowsExcept(now, bad)
    /\ loops' = [loops EXCEPT ![i] =
           [pc |-> "lock", mark |-> _get_next_minute_mark(now), wake |-> 0,
            errors |-> ErrorsAfterSleep(i)]]
    /\ UNCHANGED <<now, clock, py39, caller_calls, db_configurations, db_active, call_details,
                   alerts, sched_vars, monitor_vars, workers, next_batch,
                   shutdown_pending>>

\* a table whose row 2 has call_interval 0, between two rows that are due
\* every ten seconds, all day
IsolationTable ==
    [i \in Ids |-> Config(i, IF i = 2 THEN 0 ELSE JOIN_TIMEOUT, 1,
                          <<"0", "-", "2", "3">>)]

\* The behaviours on IsolationTable, its three rows active, from 06:59:50 on
\* the ten-second clock: one client starts and stops the monitor.
IsolationInit ==
    /\ now = 6 * 3600 + 59 * 60 + 50
    /\ clock = [step |-> JOIN_TIMEOUT, ticks |-> 0]
    /\ py39 = TRUE
    /\ caller_calls = 0
    /\ db_configurations = IsolationTable
    /\ db_active = Ids
    /\ call_details = {}
    /\ minute_stats = <<>>
    /\ alerts = {}
    /\ status = "stopped"
    /\ active_configs_count = 0
    /\ sched_lock = None
    /\ callers = [c \in Callers |-> IdleCaller]
    /\ running = FALSE
    /\ configurations = EmptyDict
    /\ executor = NoExecutor
    /\ workers = [w \in WorkerIds |-> Idle]
    /\ _thread = 0
    /\ mon_lock = None
    /\ loops = [i \in LoopIds |-> NoLoop]
    /\ next_batch = 1
    /\ shutdown_pending = {}

IsolationNext ==
    \/ \E op \in {"start", "stop"} : Call("c1", op, {})
    \/ Release("c1")
    \/ start_monitoring("c1", FALSE)
    \/ stop_enter("c1")
    \/ join_return("c1")
    \/ shutdown_return("c1")
    \/ \E i \in LoopIds : LoopHead(i)
    \/ \E i \in LoopIds : \E bad \in Ids : LoopHeadStatsFault(i, bad)
    \/ \E i \in LoopIds : LoopDispatch(i)
    \/ \E w \in WorkerIds : WorkerStart(w)
    \/ \E w \in WorkerIds : \E o \in StoreOutcomes : WorkerFinishCall(w, o)
    \/ \E w \in WorkerIds : WorkerResume(w)
    \/ Tick

IsolationSpec == IsolationInit /\ [][IsolationNext]_vars

(***************************************************************************)
(* The behaviours of one session that lasts two minutes: one client starts *)
(* the monitor at 06:59:50 on target 1 of the first table (hours "22-6",   *)
(* two calls per batch: its one batch is submitted at 06:59:50), the clock *)
(* runs in steps of ten seconds past 07:00:00 and 07:01:00, and iterations *)
(* of the loop may fail and sleep.                                         *)
(***************************************************************************)
WindowInit ==
    /\ now = 6 * 3600 + 59 * 60 + 50
    /\ clock = [step |-> JOIN_TIMEOUT, ticks |-> 0]
    /\ py39 = TRUE
    /\ caller_calls = 0
    /\ db_configurations \in ConfigTables
    /\ db_configurations[1].calls_per_batch = 2
    /\ db_active = {1}
    /\ call_details = {}
    /\ minute_stats = <<>>
    /\ alerts = {}
    /\ status = "stopped"
    /\ active_configs_count = 0
    /\ sched_lock = None
    /\ callers = [c \in Callers |-> IdleCaller]
    /\ running = FALSE
    /\ configurations = EmptyDict
    /\ executor = NoExecutor
    /\ workers = [w \in WorkerIds |-> Idle]
    /\ _thread = 0
    /\ mon_lock = None
    /\ loops = [i \in LoopIds |-> NoLoop]
    /\ next_batch = 1
    /\ shutdown_pending = {}

WindowNext ==
    \/ Call("c1", "start", {})
    \/ Release("c1")
    \/ start_monitoring("c1", FALSE)
    \/ \E i \in LoopIds : LoopHead(i)
    \/ \E i \in LoopIds : LoopDispatch(i)
    \/ \E i \in LoopIds : LoopFail(i)
    \/ \E w \in WorkerIds : WorkerStart(w)
    \/ \E w \in WorkerIds : \E o \in Outcomes : WorkerFinishCall(w, o)
    \/ \E w \in WorkerIds : WorkerResume(w)
    \/ FaultTick

WindowSpec == WindowInit /\ [][WindowNext]_vars

(***************************************************************************)
(* The behaviours in which every Start names the id set {2}, rows 1 and 2  *)
(* active: the sessions of a client that monitors target 2 alone.          *)
(***************************************************************************)
\* the id set of every Start of IdsSpec
SessionIds == {2}

IdsInit ==
    /\ Init
    /\ db_active = {1, 2}

IdsNext ==
    /\ Next
    /\ \A c \in Callers : callers'[c].op = "start" => callers'[c].arg = SessionIds

IdsSpec == IdsInit /\ [][IdsNext]_vars

(***************************************************************************)
(* Properties.                                                             *)
(***************************************************************************)
\* loop thread i completes the block under the lock in this step: one tick
\* taken while running
TickTaken(i) == loops[i].pc = "lock" /\ loops'[i].pc = "head"

\* the batches this step adds to the queue of the pool for configuration id
SubmittedFor(id) ==
    {j \in 1..Len(executor'.queue) :
        /\ executor'.queue[j].batch >= next_batch
        /\ executor'.queue[j].config.id = id}

\* the hours of the day each monitoring-hours text of the tables stands for
WindowHours(monitoring_hours) ==
    CASE monitoring_hours = <<"2", "2", "-", "6">> -> {22, 23} \cup 0..6
      [] monitoring_hours = <<"7">> -> {7}
      [] monitoring_hours = <<"0", "-", "2", "3">> -> 0..23
      [] OTHER -> 0..23

\* C1: at every tick taken while running at second s, a target of the
\* registry with call_interval k >= 1 gets exactly one batch submitted when
\* s mod k = 0 and the hour is inside its monitoring hours, and none otherwise
C1_TickDispatchesIffDue ==
    [][\A i \in LoopIds : TickTaken(i) =>
          \A id \in DOMAIN configurations :
             LET k == configurations[id].call_interval
                 due == /\ SecondOf(now) % k = 0
                        /\ HourOf(now) \in WindowHours(configurations[id].monitoring_hours)
             IN  k >= 1 => Cardinality(SubmittedFor(id)) = (IF due THEN 1 ELSE 0)]_vars

\* a loop has just taken a tick (it sleeps until now + 1) in which target 2
\* was due and its batch is queued, while target 1 of the registry was not
C1_Witness ==
    /\ running
    /\ DOMAIN configurations = {1, 2}
    /\ \E i \in LoopIds : loops[i].pc = "head" /\ loops[i].wake = now + TICK_SLEEP
    /\ next_batch = 2
    /\ Len(executor.queue) = 1
    /\ executor.queue[1].config.id = 2
    /\ _should_call_now(configurations[1], now) = "false"


\* the loop threads that are alive
AliveLoops == {i \in LoopIds : is_alive(i)}

\* C2: at most one coordinating loop thread executes iterations at any time:
\* while the running flag is set, a single loop thread is alive (a live
\* thread that finds the flag set goes on iterating)
C2_OneLoopThread == running => Cardinality(AliveLoops) <= 1


\* every worker thread of the pool is running a batch
Saturated == \A w \in WorkerIds : workers[w].pc # "idle"

\* C3 (as stated): a tick taken while the worker pool is saturated submits
\* no batch, so nothing accumulates behind the busy workers
C3_SkipWhenSaturated ==
    [][\A i \in LoopIds : (TickTaken(i) /\ Saturated) =>
          /\ next_batch' = next_batch
          /\ Len(executor'.queue) <= Len(executor.queue)]_vars

\* C3 (amended): a tick taken while the worker pool is saturated still submits
\* one batch for every due target: the batches are appended to the pool's work
\* queue behind what was already waiting there
C3_QueuedWhenSaturated ==
    [][\A i \in LoopIds : (TickTaken(i) /\ Saturated) =>
          /\ Len(executor'.queue) >= Len(executor.queue)
          /\ SubSeq(executor'.queue, 1, Len(executor.queue)) = executor.queue
          /\ \A id \in DOMAIN configurations :
                _should_call_now(configurations[id], now) = "true" =>
                   \E j \in (Len(executor.queue) + 1)..Len(executor'.queue) :
                      /\ executor'.queue[j].config.id = id
                      /\ executor'.queue[j].batch >= next_batch]_vars

\* the only worker has been in the first call of batch 1 since before the
\* current second, and the tick of the current second has queued batch 2 (for
\* the target whose window opened at 07:00) behind it
C3_Witness ==
    /\ running
    /\ Saturated
    /\ DOMAIN configurations = {1, 2}
    /\ configurations[1].call_interval = 5
    /\ \E w \in WorkerIds :
          /\ workers[w].pc = "call"
          /\ workers[w].batch = 1
          /\ workers[w].n = 1
          /\ workers[w].ts < now
    /\ \E i \in LoopIds : loops[i].pc = "head" /\ loops[i].wake = now + TICK_SLEEP
    /\ Len(executor.queue) = 1
    /\ executor.queue[1].batch = 2
    /\ executor.queue[1].config.id = 2


\* caller c returns from WebServiceMonitor.stop in this step
StopReturns(c) == callers[c].pc = "drain" /\ callers'[c].pc # "drain"

\* C4 (as stated): a Stop invoked while a probe call was in flight returns
\* within the stop timeout of 10 s, however long the batch takes
C4_StopWithinTimeout ==
    [][\A c \in Callers :
          (StopReturns(c) /\ callers[c].op = "stop" /\ callers[c].in_progress # {})
             => now <= callers[c].deadline]_vars

\* C4 (amended): Stop returns only after the batches in flight have finished,
\* whatever time they need: when stop() returns no worker is inside a batch
\* and every call that was in progress has ended
C4_StopWaitsForBatches ==
    [][\A c \in Callers : StopReturns(c) =>
          /\ \A w \in WorkerIds : workers[w].pc = "idle"
          /\ CallsInProgress = {}
          /\ \A k \in callers[c].in_progress :
                \A w \in WorkerIds : workers'[w].pc = "idle" \/ workers'[w].batch # k.batch]_vars

\* a Stop invoked during a probe call has returned success after the stop
\* timeout had passed, although the loop thread had ended in time
C4_Witness ==
    \E c \in Callers :
       /\ callers[c].pc = "return"
       /\ callers[c].op = "stop"
       /\ callers[c].ret = [ok |-> TRUE, msg |-> "stopped"]
       /\ callers[c].in_progress # {}
       /\ callers[c].joined = "ended"
       /\ now > callers[c].deadline


\* C5: while the running flag is cleared (from Stop until the next successful
\* Start sets it again) no step submits a batch to the worker pool: no batch
\* number is handed out and no queue of a pool grows
C5_NoSubmitWhileStopped ==
    [][~running =>
          /\ next_batch' = next_batch
          /\ Len(executor'.queue) <= Len(executor.queue)]_vars

\* Stop has returned after its join timed out, the flag is still cleared, and
\* the loop thread it could not join now stands before the lock with a target
\* due at the current second
C5_Witness ==
    /\ ~running
    /\ mon_lock = None
    /\ \E c \in Callers :
          /\ callers[c].pc = "return"
          /\ callers[c].op = "stop"
          /\ callers[c].joined = "timeout"
    /\ \E i \in LoopIds : loops[i].pc = "lock"
    /\ Len(DueNow(now)) > 0


\* caller c is inside WebServiceMonitor.stop, and while it waits in the join
\* the end of the stop timeout lies within the time the clock still runs
InsideStop(c) ==
    \/ callers[c].pc = "drain"
    \/ /\ callers[c].pc = "join"
       /\ now + (MaxTicks - clock.ticks) * clock.step >= callers[c].deadline

C7_QueuedBatchesCancelled ==
    \A b \in shutdown_pending :
       /\ \A w \in WorkerIds : workers[w].pc = "idle" \/ workers[w].batch # b
       /\ \A r \in call_details : r.batch # b


\* the call_details row of probe call k = (batch, number in the batch) exists
Persisted(k) == \E r \in call_details : r.batch = k.batch /\ r.n = k.n

InCall(c) == callers[c].pc # "idle"

\* caller c's start_monitoring computes its result in this step
StartReturns(c) ==
    callers[c].pc = "enter" /\ callers[c].op = "start" /\ callers'[c].pc = "return"

\* what the control calls read and write
ControlState == <<status, active_configs_count, running, _thread, configurations>>

\* C9: the control calls exclude one another, so their results are those of
\* the calls run one after the other in the order they took the lock: at most
\* one caller is inside a call and it holds the lock; the state the calls
\* work on changes only in steps of that caller; a Start succeeds only from
\* Stopped, making it Running with one new loop thread and one new pool, and
\* a Start that finds Running fails and starts nothing
C9_ControlCallsSerialized ==
    /\ [](/\ Cardinality({c \in Callers : InCall(c)}) <= 1
          /\ \A c \in Callers : InCall(c) <=> sched_lock = c)
    /\ [][ControlState' # ControlState =>
             \E c \in Callers :
                /\ InCall(c)
                /\ callers'[c] # callers[c]
                /\ \A d \in Callers \ {c} : callers'[d] = callers[d]]_vars
    /\ [][\A c \in Callers : StartReturns(c) =>
             /\ callers'[c].ret.ok =>
                   /\ status = "stopped" /\ status' = "running"
                   /\ Cardinality(AliveLoops' \ AliveLoops) = 1
                   /\ executor.none /\ ~executor'.none
             /\ status = "running" =>
                   /\ ~callers'[c].ret.ok
                   /\ loops' = loops /\ executor' = executor /\ status' = status]_vars

\* the second of two Starts has been refused: the controller is Running with
\* the one loop thread and the one pool the first Start made
C9_Witness ==
    /\ status = "running"
    /\ \E c \in Callers :
          /\ callers[c].pc = "return"
          /\ callers[c].op = "start"
          /\ callers[c].ret = [ok |-> FALSE, msg |-> "already_running"]
    /\ Cardinality({i \in LoopIds : loops[i].pc # "none"}) = 1
    /\ Cardinality(AliveLoops) = 1
    /\ ~executor.none


\* the active targets a Start with the ids `arg` loads: all the active rows,
\* or those among them that `arg` names
LoadOf(arg) == IF arg = {} THEN db_active ELSE db_active \cap arg

\* C10: a Start from Stopped whose load yields at least one active target (and
\* meets no storage error) makes the controller Running and, before it
\* returns success, has the registry loaded, the pool created and the loop
\* thread started; with an empty load it does not succeed
C10_StartLaunchesLoop ==
    [][\A c \in Callers : (StartReturns(c) /\ status = "stopped") =>
          LET load == LoadOf(callers[c].arg)
          IN  /\ (load # {} /\ callers'[c].ret.msg # "start_error") =>
                    /\ callers'[c].ret = [ok |-> TRUE, msg |-> "started"]
                    /\ status' = "running"
                    /\ running'
                    /\ DOMAIN configurations' = load
                    /\ active_configs_count' = Cardinality(load)
                    /\ ~executor'.none /\ ~executor'.shutdown
                    /\ _thread' \in LoopIds
                    /\ loops[_thread'].pc = "none"
                    /\ loops'[_thread'].pc = "new"
              /\ load = {} =>
                    /\ ~callers'[c].ret.ok
                    /\ status' = "stopped"
                    /\ ~running']_vars

\* a Start naming the active target 2 has computed its success: Running, the
\* registry holds target 2 alone, the pool exists and the new loop thread has
\* been started
C10_Witness ==
    \E c \in Callers :
       /\ callers[c].pc = "return"
       /\ callers[c].op = "start"
       /\ callers[c].arg = {2}
       /\ callers[c].ret = [ok |-> TRUE, msg |-> "started"]
       /\ status = "running"
       /\ running
       /\ DOMAIN configurations = {2}
       /\ ~executor.none
       /\ _thread # 0
       /\ loops[_thread].pc = "new"


\* C11: a Start whose load is empty (no active target, or none among the ids
\* asked for) returns the failure result that names the missing
\* configurations, not an error; the controller stays Stopped and neither a
\* loop thread nor a pool is created
C11_EmptyStartFails ==
    [][\A c \in Callers :
          (/\ StartReturns(c)
           /\ status = "stopped"
           /\ LoadOf(callers[c].arg) = {}
           /\ callers'[c].ret.msg # "start_error") =>
             /\ callers'[c].ret = [ok |-> FALSE, msg |-> "start_failed"]
             /\ status' = "stopped"
             /\ ~running'
             /\ configurations' = EmptyDict
             /\ loops' = loops
             /\ _thread' = _thread
             /\ executor' = executor
             /\ executor'.none]_vars

\* a Start naming only the inactive target 3 has been refused while targets 1
\* and 2 are active: Stopped, no pool, no loop thread ever started
C11_Witness ==
    /\ db_active = {1, 2}
    /\ \E c \in Callers :
          /\ callers[c].pc = "return"
          /\ callers[c].op = "start"
          /\ callers[c].arg = {3}
          /\ callers[c].ret = [ok |-> FALSE, msg |-> "start_failed"]
    /\ status = "stopped"
    /\ ~running
    /\ executor.none
    /\ \A i \in LoopIds : loops[i].pc = "none"

\* caller c's reload_configurations computes its result in this step
ReloadReturns(c) ==
    callers[c].op = "reload" /\ callers[c].pc = "restart" /\ callers'[c].pc = "return"

\* C12: after a successful Reload the registry is the active targets
\* restricted to the id set of the previous Start (all of them when none was
\* given).  The rows of the storage do not change in Spec, so that is the
\* registry the monitor had before the Reload
C12_ReloadKeepsIdSet ==
    [][\A c \in Callers :
          (ReloadReturns(c) /\ callers'[c].ret.ok) =>
             DOMAIN configurations' = DOMAIN configurations]_vars


\* C13: a Reload called in Running whose restart loads no target (every row
\* has been switched off) returns the failure result, not an error; the
\* controller becomes Stopped, the flag is cleared, no pool is left and no
\* loop thread is started; a loop thread the join could not wait for submits
\* nothing more and ends at its next step
C13_EmptyReloadStops ==
    /\ [][\A c \in Callers :
             (/\ ReloadReturns(c)
              /\ db_active = {}
              /\ callers'[c].ret.msg # "reload_error") =>
                /\ callers'[c].ret = [ok |-> FALSE, msg |-> "reload_failed"]
                /\ status' = "stopped"
                /\ ~running'
                /\ executor'.none
                /\ loops' = loops
                /\ \A w \in WorkerIds : workers'[w].pc = "idle"]_vars
    /\ [][\A i \in LoopIds :
             (~running /\ is_alive(i) /\ loops'[i] # loops[i]) =>
                /\ loops'[i].pc = "dead"
                /\ next_batch' = next_batch]_vars

\* a Reload has found every row switched off and returned its failure: the
\* controller is Stopped, the flag cleared and the pool gone
C13_Witness ==
    /\ db_active = {}
    /\ \E c \in Callers :
          /\ callers[c].pc = "return"
          /\ callers[c].op = "reload"
          /\ callers[c].ret = [ok |-> FALSE, msg |-> "reload_failed"]
          /\ callers[c].joined # None
    /\ status = "stopped"
    /\ ~running
    /\ executor.none
    /\ configurations = EmptyDict


\* the rows a step adds to call_details and to alerts
NewDetails == call_details' \ call_details

NewAlerts == alerts' \ alerts

QualifyingCalls(id) ==
    {r \in call_details :
        /\ r.config_id = id
        /\ \/ ~(200 <= r.status_code /\ r.status_code < 300)
           \/ r.response_time > db_configurations[id].alert_threshold}

RecordsInWindow(id, from, to) ==
    {r \in call_details : r.config_id = id /\ r.ts >= from /\ r.ts <= to}

\* C16: in every reachable state the call_count of every minute_stats row
\* equals the number of call_details rows of its target whose timestamp lies
\* in the row's window [start_time, end_time]
C16_CallCountMatchesWindow ==
    \A j \in 1..Len(minute_stats) :
       minute_stats[j].call_count =
          Cardinality(RecordsInWindow(minute_stats[j].config_id,
                                      minute_stats[j].start_time,
                                      minute_stats[j].end_time))


\* C17: the success_count of every minute_stats row is the number of the
\* call_details rows it aggregated (those of its target and window stored
\* when it was computed) whose status is in [200,300), its call_count is the
\* number of those rows, and success_count <= call_count
C17_SuccessCountOfAggregated ==
    /\ [](\A j \in 1..Len(minute_stats) :
             minute_stats[j].success_count <= minute_stats[j].call_count)
    /\ [][\A j \in (Len(minute_stats) + 1)..Len(minute_stats') :
             LET row == minute_stats'[j]
                 agg == RecordsInWindow(row.config_id, row.start_time, row.end_time)
             IN  /\ row.call_count = Cardinality(agg)
                 /\ row.success_count =
                       Cardinality({r \in agg : r.status_code \in 200..299})]_vars

\* a row that aggregated two calls, one successful and one not
C17_Witness ==
    \E j \in 1..Len(minute_stats) :
       /\ minute_stats[j].call_count = 2
       /\ minute_stats[j].success_count = 1
       /\ \E r \in call_details :
             r.config_id = minute_stats[j].config_id /\ r.status_code \notin 200..299

\* C18: a target with no call_details row in the aggregation window gets no
\* minute_stats row: every row ever written has call_count >= 1 and its
\* window holds a call of its target
C18_NoRowWithoutCalls ==
    \A j \in 1..Len(minute_stats) :
       /\ minute_stats[j].call_count >= 1
       /\ RecordsInWindow(minute_stats[j].config_id, minute_stats[j].start_time,
                          minute_stats[j].end_time) # {}

\* the statistics have run with targets 1 and 2 in the registry: target 1,
\* which had a call in the window, got the one row; target 2, which had none,
\* got no row
C18_Witness ==
    /\ DOMAIN configurations = {1, 2}
    /\ Len(minute_stats) = 1
    /\ minute_stats[1].config_id = 1
    /\ \A r \in call_details : r.config_id = 1


\* C19 (as stated): every call_details row has exactly one of: a status code
\* in [0,600) with no error text, or the sentinel -1 with non-empty error text
C19_StatusOrSentinel ==
    \A r \in call_details :
       (r.status_code \in 0..599 /\ r.error_message = None)
          # (r.status_code = -1 /\ r.error_message \notin {None, ""})

\* C19 (amended): every call_details row has exactly one of: the status code
\* of the response, whatever code the server sent, with no error text, or the
\* sentinel -1 with the text of the exception, which may be empty
C19_ResponseOrSentinel ==
    \A r \in call_details :
       (r.status_code # -1 /\ r.error_message = None)
          # (r.status_code = -1 /\ r.error_message # None)

\* a response with status 799 and a timed-out request have been recorded
C19_Witness ==
    /\ \E r \in call_details : r.status_code = 799 /\ r.error_message = None
    /\ \E r \in call_details : r.status_code = -1 /\ r.error_message = "read timed out"

\* worker w's probe call ends in this step
CallEnds(w) == workers[w].pc = "call" /\ workers'[w] # workers[w]

\* C20: probing never throws: whatever the transport does, the call that ends
\* leaves its one call_details row, with the sentinel and an error text when
\* the request failed, and the batch goes on to its pause; the same holds of
\* the record WebServiceCaller.call builds for every outcome
C20_ProbeNeverThrows ==
    /\ [][\A w \in WorkerIds : CallEnds(w) =>
             /\ workers'[w].pc = "pause"
             /\ \E r \in NewDetails :
                   /\ NewDetails = {r}
                   /\ r.batch = workers[w].batch /\ r.n = workers[w].n
                   /\ r.config_id = workers[w].config.id
                   /\ r.ts = workers[w].ts
                   /\ \/ r.status_code # -1 /\ r.error_message = None
                      \/ r.status_code = -1 /\ r.error_message # None]_vars
    /\ [](\A w \in WorkerIds : workers[w].pc = "call" =>
             \A o \in ProbeOutcomes :
                LET d == WebServiceCaller_call(workers[w].config, workers[w].ts, o)
                IN  IF o.kind = "response"
                    THEN d.status_code = o.status /\ d.error_message = None
                    ELSE /\ d.status_code = -1
                         /\ d.error_message # None
                         /\ o.kind \in {"timeout", "connection"} => d.error_message # "")

\* three kinds of failure are on record: a call that timed out and one whose
\* exception had no text, each stored with the sentinel, and the batch of the
\* worker that made the last of them went on
C20_Witness ==
    /\ \E r \in call_details : r.status_code = -1 /\ r.error_message = ""
    /\ \E r \in call_details : r.status_code = -1 /\ r.error_message = "connection refused"
    /\ \A w \in WorkerIds : workers[w].pc = "pause"


\* the numbers a monitoring-hours text of HoursInputs was written from
HoursInputOf(text) == CHOOSE x \in HoursInputs : x.text = text

\* the hours of the day the reference rule puts in the window
RuleHours(x) ==
    CASE x.kind = "range" /\ x.a <= x.b -> x.a .. x.b
      [] x.kind = "range" /\ x.a > x.b -> {h \in 0..23 : h >= x.a \/ h <= x.b}
      [] x.kind = "single" -> {x.a}
      [] OTHER -> 0..23

\* C21: for every well-formed monitoring-hours text and every hour h of
\* 0..23, the in-window test equals the reference rule: "a-b" with a <= b is
\* in-window iff a <= h <= b, "a-b" with a > b iff h >= a or h <= b, a single
\* hour "a" iff h = a; and a tick submits the target exactly when the rule
\* puts the hour in its window
C21_InWindowMatchesRule ==
    /\ [](\A id \in Ids :
            LET x == HoursInputOf(db_configurations[id].monitoring_hours)
            IN  x.kind # "malformed" =>
                  (_is_in_monitoring_hours(x.text, HourOf(now))
                      <=> HourOf(now) \in RuleHours(x)))
    /\ [][\A i \in LoopIds : TickTaken(i) =>
            \A id \in DOMAIN configurations :
               LET x == HoursInputOf(configurations[id].monitoring_hours)
               IN  x.kind # "malformed" =>
                     (Cardinality(SubmittedFor(id)) = 1
                         <=> HourOf(now) \in RuleHours(x))]_vars

\* at hour 3 a worker runs the batch of a target whose hours are "22-6"
C21_Witness ==
    /\ HourOf(now) = 3
    /\ DOMAIN configurations = {1}
    /\ configurations[1].monitoring_hours = <<"2", "2", "-", "6">>
    /\ \E w \in WorkerIds : workers[w].pc = "call" /\ workers[w].config.id = 1


\* C22: a monitoring-hours value that is neither one integer nor two integers
\* separated by "-" (empty, not a number, three parts, a missing part, no
\* string at all) puts the target in the window at every hour: every tick
\* submits it and the worker runs its batch; nothing is raised
C22_FailOpen ==
    /\ [](\A id \in Ids :
            LET x == HoursInputOf(db_configurations[id].monitoring_hours)
            IN  x.kind = "malformed" =>
                  _is_in_monitoring_hours(x.text, HourOf(now)))
    /\ [][\A i \in LoopIds : TickTaken(i) =>
            \A id \in DOMAIN configurations :
               HoursInputOf(configurations[id].monitoring_hours).kind = "malformed"
                  => Cardinality(SubmittedFor(id)) = 1]_vars
    /\ [][(/\ Len(executor'.queue) < Len(executor.queue)
           /\ executor'.shutdown = executor.shutdown
           /\ HoursInputOf(Head(executor.queue).config.monitoring_hours).kind
                 = "malformed")
          => \E w \in WorkerIds :
                /\ workers[w].pc = "idle"
                /\ workers'[w].pc = "call"
                /\ workers'[w].batch = Head(executor.queue).batch]_vars

\* at hour 12 a worker runs the batch of a target whose hours are "1-2-3"
C22_Witness ==
    /\ HourOf(now) = 12
    /\ DOMAIN configurations = {1}
    /\ configurations[1].monitoring_hours = <<"1", "-", "2", "-", "3">>
    /\ \E w \in WorkerIds : workers[w].pc = "call" /\ workers[w].config.id = 1


\* the messages a control operation returns with its flag
ControlMessages ==
    [start |-> {"already_running", "started", "start_failed", "start_error"},
     stop |-> {"not_running", "stopped", "stop_failed"},
     reload |-> {"not_running", "reloaded", "reload_failed", "reload_error"}]

\* C23: every Start, Stop and Reload ends by returning a success flag and a
\* message, whatever the monitor did, an exception raised by the monitor
\* included: the step in which the monitor raises gives the caller the flag
\* false with the error message and leaves the service Stopped
C23_AlwaysFlagAndMessage ==
    /\ [](\A c \in Callers :
            /\ callers[c].pc \in {"idle", "enter", "join", "drain", "restart", "return"}
            /\ (callers[c].pc = "return" /\ callers[c].op # "status") =>
                  /\ callers[c].ret.ok \in BOOLEAN
                  /\ callers[c].ret.msg \in ControlMessages[callers[c].op]
                  /\ callers[c].ret.ok <=>
                        callers[c].ret.msg \in {"started", "stopped", "reloaded"})
    /\ [][\A c \in Callers :
            (/\ callers[c].pc \in {"enter", "restart"}
             /\ callers[c].op # "status"
             /\ callers'[c].pc = "return"
             /\ callers'[c].ret.msg \in {"start_error", "reload_error"})
            => /\ ~callers'[c].ret.ok
               /\ status' = "stopped"
               /\ sched_lock' = c]_vars

\* a Reload whose restart raised has returned failure with its message, after
\* a Start whose monitor raised had done the same
C23_Witness ==
    /\ callers["c1"].pc = "return"
    /\ callers["c1"].op = "reload"
    /\ callers["c1"].ret = [ok |-> FALSE, msg |-> "reload_error"]
    /\ status = "stopped"
    /\ ~running


\* C24: each call_webservice that ends has invoked WebServiceCaller.call
\* exactly once, and the record it leaves has the status code and the
\* response time that WebServiceCaller.call produces for the same request
C24_DelegatesToCaller ==
    [][\A w \in WorkerIds : CallEnds(w) =>
          /\ caller_calls' = caller_calls + 1
          /\ \A r \in NewDetails : \E o \in ProbeOutcomes :
                LET d == WebServiceCaller_call(workers[w].config, workers[w].ts, o)
                IN  /\ r.status_code = d.status_code
                    /\ r.response_time = d.response_time]_vars


\* C25: whenever no control call is in progress the stored status is
\* "running" exactly when the monitor's running flag is set, and then the
\* stored count is the size of the registry; and Status, which runs only
\* then, returns running with that size when the flag is set and stopped
\* with 0 when it is not
C25_StatusReportsMonitor ==
    /\ [](sched_lock = None =>
            /\ status = "running" <=> running
            /\ running => active_configs_count = Cardinality(DOMAIN configurations))
    /\ [][\A c \in Callers :
            (/\ callers[c].pc = "enter"
             /\ callers[c].op = "status"
             /\ callers'[c].pc = "return")
            => callers'[c].ret =
                 IF running
                 THEN [status |-> "running",
                       active_configs |-> Cardinality(DOMAIN configurations)]
                 ELSE [status |-> "stopped", active_configs |-> 0]]_vars

\* Status has answered stopped with 0 after a Stop; the count stored by the
\* Start before it is still 2
C25_Witness ==
    /\ \E c \in Callers :
          /\ callers[c].pc = "return"
          /\ callers[c].op = "status"
          /\ callers[c].ret = [status |-> "stopped", active_configs |-> 0]
    /\ active_configs_count = 2
    /\ ~running

\* Status has answered running with the two targets of the registry
C25_WitnessRunning ==
    /\ \E c \in Callers :
          /\ callers[c].pc = "return"
          /\ callers[c].op = "status"
          /\ callers[c].ret = [status |-> "running", active_configs |-> 2]
    /\ running
    /\ DOMAIN configurations = {1, 2}


\* loop thread i passes the top of an iteration while running
IterationBegins(i) == loops[i].pc \in {"new", "head"} /\ loops'[i].pc = "lock"

\* the minute boundary loop thread i is waiting for
PendingMark(i) ==
    IF loops[i].pc = "new" THEN _get_next_minute_mark(now) ELSE loops[i].mark

\* C26: while running, an iteration that begins at or after the pending
\* minute boundary runs the aggregator for all targets and sets the pending
\* boundary to the start of the following minute, later than the current
\* time; an iteration that begins before it does neither; and no boundary is
\* aggregated more than once: no target has two statistics rows that end in
\* the same minute
C26_AggregateOncePerBoundary ==
    /\ [][\A i \in LoopIds : IterationBegins(i) =>
            IF now >= PendingMark(i)
            THEN /\ minute_stats' = minute_stats \o StatsRows(now)
                 /\ loops'[i].mark = ((now \div 60) + 1) * 60
                 /\ loops'[i].mark > now
            ELSE /\ minute_stats' = minute_stats
                 /\ loops'[i].mark = PendingMark(i)]_vars
    /\ [](\A j, k \in 1..Len(minute_stats) :
            (/\ j # k
             /\ minute_stats[j].config_id = minute_stats[k].config_id)
            => minute_stats[j].end_time \div 60 # minute_stats[k].end_time \div 60)


\* the calls of batch b on record
CallsOnRecord(b) == {r.n : r \in {x \in call_details : x.batch = b}}

\* C27: a batch started inside the monitoring window makes exactly
\* calls_per_batch calls, one after the other: call n + 1 is issued only when
\* the record of call n is stored, the batch returns only when all
\* calls_per_batch records are stored, and no batch has a call beyond
\* calls_per_batch
C27_BatchCallsSequential ==
    /\ [][\A w \in WorkerIds :
            /\ (workers[w].pc = "pause" /\ workers'[w].pc = "call") =>
                  /\ workers'[w].n = workers[w].n + 1
                  /\ workers'[w].n <= workers[w].config.calls_per_batch
                  /\ CallsOnRecord(workers[w].batch) = 1..workers[w].n
            /\ (workers[w].pc = "pause" /\ workers'[w].pc = "idle") =>
                  CallsOnRecord(workers[w].batch)
                     = 1..workers[w].config.calls_per_batch]_vars
    /\ [](\A w \in WorkerIds :
            /\ workers[w].pc = "call" =>
                  CallsOnRecord(workers[w].batch) = 1..(workers[w].n - 1)
            /\ workers[w].pc = "pause" =>
                  CallsOnRecord(workers[w].batch) = 1..workers[w].n)
    /\ [](\A r \in call_details :
            r.n \in 1..db_configurations[r.config_id].calls_per_batch)

\* a batch of target 1, two calls per batch, has returned with both of its
\* calls on record
C27_Witness ==
    /\ \A w \in WorkerIds : workers[w].pc = "idle"
    /\ \E r1, r2 \in call_details :
          /\ r1.batch = r2.batch
          /\ r1.n = 1 /\ r2.n = 2
          /\ r1.config_id = 1
          /\ db_configurations[1].calls_per_batch = 2
          /\ r1.ts <= r2.ts


\* a batch is taken from the queue of the pool in this step, worker w free
BatchTaken(w) ==
    /\ workers[w].pc = "idle"
    /\ Len(executor.queue) > 0
    /\ executor'.queue = Tail(executor.queue)
    /\ executor'.shutdown = executor.shutdown

\* C28: a batch whose target is outside its monitoring hours when the worker
\* starts it, whatever the hour was when the loop submitted it, is skipped:
\* the worker that took it is free again at once and no worker is in a call
\* of it, no call_details row and no alert is written then or later for it
C28_OutOfWindowBatchSkipped ==
    /\ [][\A w \in WorkerIds :
            (/\ BatchTaken(w)
             /\ HourOf(now) \notin
                   WindowHours(Head(executor.queue).config.monitoring_hours))
            => /\ workers' = workers
               /\ call_details' = call_details
               /\ alerts' = alerts]_vars
    /\ [](\A r \in call_details \cup alerts :
            \E first \in call_details :
               /\ first.batch = r.batch
               /\ first.n = 1
               /\ HourOf(first.ts) \in
                     WindowHours(db_configurations[first.config_id].monitoring_hours))
    /\ [](\A w \in WorkerIds : workers[w].pc \in {"idle", "call", "pause"})

\* at 07:00:00 the batch of target 1 (hours "22-6"), submitted at 06:59:50, has
\* been taken by the worker and dropped: nothing is queued and no shutdown
\* ever found a batch queued, the worker is free and nothing was written
C28_Witness ==
    /\ HourOf(now) = 7
    /\ running
    /\ DOMAIN configurations = {1, 2}
    /\ configurations[1].monitoring_hours = <<"2", "2", "-", "6">>
    /\ next_batch = 2
    /\ shutdown_pending = {}
    /\ ~executor.none
    /\ executor.queue = <<>>
    /\ \A w \in WorkerIds : workers[w].pc = "idle"
    /\ call_details = {}
    /\ alerts = {}


\* an iteration of loop thread i fails in this step
IterationFails(i) == loops'[i].pc = "except" /\ loops'[i] # loops[i]

\* the failures in a row of loop thread i, this one included
FailuresInARow(i) == loops'[i].errors

\* C30 as stated: the fifth failed iteration in a row is followed by the pause
\* of 30 seconds
C30_BackoffAtFiveFailures ==
    [][\A i \in LoopIds :
          (IterationFails(i) /\ FailuresInARow(i) = 5)
          => loops'[i].wake = now + 30]_vars

\* C30, amended: a failed iteration adds one to the count of failures in a
\* row; the first five are each followed by a pause of 5 seconds and the sixth
\* by the pause of 30 seconds, after which the count starts again from zero;
\* an iteration that succeeds sets the count to zero and is followed by the
\* one-second sleep of normal ticking
C30_BackoffAfterSixFailures ==
    /\ [][\A i \in LoopIds : IterationFails(i) =>
            /\ FailuresInARow(i) \in 1..6
            /\ loops[i].pc # "except" => FailuresInARow(i) = loops[i].errors + 1
            /\ (loops[i].pc = "except" /\ loops[i].errors < 6) =>
                  FailuresInARow(i) = loops[i].errors + 1
            /\ (loops[i].pc = "except" /\ loops[i].errors = 6) =>
                  FailuresInARow(i) = 1
            /\ loops'[i].wake = now + (IF FailuresInARow(i) = 6 THEN 30 ELSE 5)]_vars
    /\ [][\A i \in LoopIds :
            /\ (loops[i].pc = "except" /\ loops'[i].pc = "lock") =>
                  /\ now >= loops[i].wake
                  /\ loops'[i].errors = (IF loops[i].errors = 6 THEN 0
                                         ELSE loops[i].errors)
            /\ TickTaken(i) =>
                  /\ loops'[i].errors = 0
                  /\ loops'[i].wake = now + 1]_vars
    /\ [](\A i \in LoopIds :
            loops[i].pc \in {"new", "head", "lock", "except"} =>
               loops[i].errors \in 0..6)

\* six iterations in a row have failed, the last at 06:59:25, and the pause
\* of 30 seconds that followed it is over
C30_Witness ==
    \E i \in LoopIds :
       /\ loops[i].pc = "except"
       /\ loops[i].errors = 6
       /\ loops[i].wake = 6 * 3600 + 59 * 60 + 55
       /\ now = loops[i].wake
       /\ running


\* the instants at which a sleep that follows a failed iteration can end
\* before the clock of FaultSpec stops
FaultWakes == {6 * 3600 + 59 * 60 + k * ERROR_SLEEP : k \in 1..MaxFaultTicks}

\* C29: an exception raised inside an iteration does not end the loop: the
\* thread ends only when it finds the running flag cleared, and once the
\* sleep that follows a failed iteration is over the thread either finds the
\* flag cleared or executes another iteration (it reaches the lock, or fails
\* again and sleeps anew)
C29_LoopSurvivesException ==
    /\ [][\A i \in LoopIds :
            (loops[i].pc \notin {"none", "dead"} /\ loops'[i].pc = "dead")
            => ~running]_vars
    /\ \A i \in LoopIds : \A t \in FaultWakes :
          (loops[i].pc = "except" /\ loops[i].wake = t)
          ~> (\/ ~running
              \/ loops[i].pc = "lock"
              \/ loops[i].pc = "except" /\ loops[i].wake > t)

\* two iterations in a row have failed and, the flag still set, the thread
\* has begun the next one
C29_Witness ==
    /\ running
    /\ loops[1].pc = "lock"
    /\ loops[1].errors = 2


\* a write of the call of worker w that ends in this step raised: no
\* call_details row was added, or the row was added without the alert due
WriteFails(w) ==
    /\ CallEnds(w)
    /\ \/ NewDetails = {}
       \/ /\ NewAlerts = {}
          /\ \E r \in NewDetails :
                AlertsFor(workers[w].config,
                          [status_code |-> r.status_code,
                           response_time |-> r.response_time]) # {}

\* C31: a failure of save_call_detail or create_alert is contained in its
\* call: call_webservice returns to the batch, which is at its pause with the
\* same batch and call number; the batch then makes its remaining calls; the
\* loop threads, the running flag, the pool and the other workers are as they
\* were
C31_PersistenceFailureContained ==
    /\ [][\A w \in WorkerIds : WriteFails(w) =>
            /\ workers' = [workers EXCEPT ![w].pc = "pause"]
            /\ loops' = loops
            /\ running' = running
            /\ _thread' = _thread
            /\ executor' = executor
            /\ status' = status]_vars
    /\ [][\A w \in WorkerIds :
            (workers[w].pc = "pause" /\ workers'[w] # workers[w]) =>
               IF workers[w].n < workers[w].config.calls_per_batch
               THEN /\ workers'[w].pc = "call"
                    /\ workers'[w].batch = workers[w].batch
                    /\ workers'[w].n = workers[w].n + 1
               ELSE workers'[w] = Idle]_vars

\* the first call of a batch of two left no row, the second call of the
\* batch is in progress, and a loop thread is past that tick, alive
C31_Witness ==
    /\ running
    /\ \E w \in WorkerIds :
          /\ workers[w].pc = "call"
          /\ workers[w].n = 2
          /\ ~Persisted([batch |-> workers[w].batch, n |-> 1])
    /\ \E i \in LoopIds : loops[i].pc = "head" /\ is_alive(i)


\* C39: an alert is created only for a call whose call_details row was
\* saved, and not before it: every alert on record has the row of its call,
\* a step that adds an alert adds it with or after that row, and a call that
\* ends without a row being saved adds no alert
C39_AlertOnlyAfterRecord ==
    /\ [](\A a \in alerts : Persisted([batch |-> a.batch, n |-> a.n]))
    /\ [][\A a \in NewAlerts :
             \E r \in call_details' :
                r.batch = a.batch /\ r.n = a.n /\ r.config_id = a.config_id]_vars
    /\ [][\A w \in WorkerIds :
             (CallEnds(w) /\ NewDetails = {}) => NewAlerts = {}]_vars

\* a call of a batch ended with its row not saved and without an alert,
\* while an alert of another call is on record with its row
C39_Witness ==
    /\ \E w \in WorkerIds :
          /\ workers[w].pc = "pause"
          /\ ~Persisted(CallKey(w))
          /\ ~\E a \in alerts : a.batch = workers[w].batch /\ a.n = workers[w].n
    /\ \E a \in alerts : Persisted([batch |-> a.batch, n |-> a.n])


\* Whenever the running flag is set and the monitor's lock is free, the pool
\* is present and not shut down: start() creates it and stop() clears it
\* inside the lock, with the flag set after the one and cleared before the
\* other.  A loop thread that takes the lock and finds the flag set therefore
\* never finds the pool absent or shut down.
PoolLiveWhileRunning ==
    (running /\ mon_lock = None) => (~executor.none /\ ~executor.shutdown)


\* control call c is blocked inside stop(): in the join on the loop thread,
\* or in the wait of the pool's shutdown for its worker threads
BlockedInStop(c) == callers[c].pc \in {"join", "drain"}

\* a loop thread is at "with self._lock" while a blocked control call holds it
LoopWaitsForBlockedCall ==
    \E c \in Callers : \E i \in LoopIds :
       mon_lock = c /\ BlockedInStop(c) /\ loops[i].pc = "lock"

\* C33: the monitor's lock is held only to read or replace the registry: no
\* control call holds it while it waits for the loop thread to end or for
\* the pool to shut down
C33_LockNotHeldWhileBlocked ==
    \A c \in Callers : mon_lock = c => ~BlockedInStop(c)


\* C34: with the id set SessionIds given to every Start, the registry of a
\* running monitor is exactly the active targets whose id is in the set, and
\* no other target is probed: every call_details row, every call in
\* progress and every queued batch is of such a target
C34_RegistryWithinIds ==
    LET allowed == db_active \cap SessionIds
    IN  /\ running => DOMAIN configurations = allowed
        /\ \A r \in call_details : r.config_id \in allowed
        /\ \A w \in WorkerIds : workers[w].pc # "idle" => workers[w].config.id \in allowed
        /\ \A j \in 1..Len(executor.queue) : executor.queue[j].config.id \in allowed


\* the times at which a sleep of the loop can end in LoopFairSpec: the start
\* at 06:59:50 and the ticks of the ten-second clock, each plus TICK_SLEEP
LoopWakes ==
    {6 * 3600 + 59 * 60 + 50 + k * JOIN_TIMEOUT + d :
        k \in 0..MaxTicks, d \in {0, TICK_SLEEP}}

\* the iteration of loop thread i cannot go on inside the bounds: the clock
\* has stopped before its sleep ends, or the tick would submit more batches
\* than MaxBatches
OutOfBounds(i) ==
    \/ /\ loops[i].pc \in {"new", "head"}
       /\ clock.ticks = MaxTicks /\ now < loops[i].wake
    \/ loops[i].pc = "lock" /\ next_batch + Len(DueNow(now)) - 1 > MaxBatches

\* C35: while the running flag is set the loop thread of the monitor is
\* alive, a loop thread ends only in a step that finds the flag cleared, and
\* the thread goes on to further ticks: an iteration whose sleep ends at t is
\* followed by the completion of that tick (the thread is at its next sleep,
\* ending later than t) unless the flag is cleared first
C35_RunningLoopAlive ==
    /\ [](running => is_alive(_thread))
    /\ [][\A i \in LoopIds :
            (is_alive(i) /\ ~is_alive(i)') => ~running]_vars
    /\ \A i \in LoopIds : \A t \in LoopWakes :
          (/\ running /\ _thread = i
           /\ loops[i].pc \in {"new", "head"} /\ loops[i].wake = t)
          ~> (\/ ~running
              \/ loops[i].pc = "head" /\ loops[i].wake > t
              \/ OutOfBounds(i))

\* the monitor is running at 07:00:00 and its loop thread, started at
\* 06:59:50, has completed the tick of 07:00:00 and sleeps to 07:00:01
C35_Witness ==
    /\ running
    /\ is_alive(_thread)
    /\ now = 7 * 3600
    /\ loops[_thread].pc = "head"
    /\ loops[_thread].wake = now + TICK_SLEEP
    /\ ~OutOfBounds(_thread)


DoesNotApply(c) ==
    /\ callers[c].pc = "enter"
    /\ \/ callers[c].op = "start" /\ status = "running"
       \/ callers[c].op \in {"stop", "reload"} /\ status = "stopped"

\* C37: a control call that does not apply is rejected without effect: its
\* one step returns a failure result and leaves the status, the count, the
\* running flag, the registry, the pool, the loop threads, the workers, the
\* monitor's lock and the stored rows as they were
C37_RejectedWithoutEffect ==
    [][\A c \in Callers :
          (DoesNotApply(c) /\ callers'[c] # callers[c]) =>
             /\ callers'[c].pc = "return"
             /\ ~callers'[c].ret.ok
             /\ callers'[c].ret.msg \in {"already_running", "not_running"}
             /\ UNCHANGED <<status, active_configs_count, monitor_vars, loops,
                            workers, next_batch, storage_vars>>]_vars

\* a Reload has been refused in Stopped after a session that wrote rows: the
\* registry of the session is still in place, the pool is gone and no loop
\* thread was started by the call
C37_Witness ==
    /\ status = "stopped"
    /\ ~running
    /\ DOMAIN configurations # {}
    /\ executor.none
    /\ callers["c1"].pc = "return"
    /\ callers["c1"].op = "reload"
    /\ callers["c1"].ret = [ok |-> FALSE, msg |-> "not_running"]
    /\ call_details # {}
    /\ AliveLoops = {}


\* the targets of the registry whose evaluation raises at this tick
RaisingTargets ==
    {k \in DOMAIN configurations :
        /\ configurations[k].call_interval = 0
        /\ HourOf(now) \in WindowHours(configurations[k].monitoring_hours)}

\* the targets of the rows this step adds to minute_stats
NewStatsTargets ==
    {minute_stats'[j].config_id : j \in (Len(minute_stats) + 1)..Len(minute_stats')}

\* the aggregator runs in this step of loop thread i
AggregatorRuns(i) ==
    /\ IterationBegins(i)
    /\ running
    /\ now >= PendingMark(i)

\* C38: a fault tied to one target stays with it.  A tick in which the
\* evaluation of a target raises (call_interval 0) is completed: every other
\* target gets its batch if and only if it is due, the raising target gets
\* none, and the loop goes to its sleep with the failure counter at 0.  An
\* aggregator run in which one target fails writes the row of every other
\* target that has calls in the window and leaves the counter as it was.  The
\* counter is never above 0 and no loop thread is ever in the except branch.
C38_TargetFaultIsolated ==
    /\ [][\A i \in LoopIds :
            (loops[i].pc = "lock" /\ running /\ loops'[i] # loops[i]) =>
               /\ loops'[i].pc = "head"
               /\ loops'[i].errors = 0
               /\ \A id \in RaisingTargets : SubmittedFor(id) = {}
               /\ \A id \in DOMAIN configurations \ RaisingTargets :
                     LET k == configurations[id].call_interval
                         due == /\ SecondOf(now) % k = 0
                                /\ HourOf(now) \in
                                      WindowHours(configurations[id].monitoring_hours)
                     IN  Cardinality(SubmittedFor(id)) = (IF due THEN 1 ELSE 0)]_vars
    /\ [][\A i \in LoopIds : AggregatorRuns(i) =>
            LET expected == {k \in DOMAIN configurations :
                                RecordsInWindow(k, now - 60, now) # {}}
            IN  /\ NewStatsTargets \subseteq expected
                /\ Cardinality(expected \ NewStatsTargets) <= 1
                /\ Len(minute_stats') = Len(minute_stats) + Cardinality(NewStatsTargets)
                /\ loops'[i].pc = "lock"
                /\ loops'[i].errors = 0]_vars
    /\ [](\A i \in LoopIds : is_alive(i) =>
            /\ loops[i].pc \in {"new", "head", "lock"}
            /\ loops[i].errors = 0)

\* at 07:00:00, in one session on targets 1, 2 and 3: the tick of 06:59:50
\* met the call_interval 0 of target 2 and submitted the batches of targets
\* 1 and 3, whose calls are stored; the aggregator then failed for target 1
\* and wrote the row of target 3; the loop thread is alive, its counter 0
C38_Witness ==
    /\ running
    /\ DOMAIN configurations = {1, 2, 3}
    /\ configurations[2].call_interval = 0
    /\ {r.config_id : r \in call_details} = {1, 3}
    /\ Len(minute_stats) = 1
    /\ minute_stats[1].config_id = 3
    /\ minute_stats[1].call_count = 1
    /\ is_alive(_thread)
    /\ loops[_thread].pc = "lock"
    /\ loops[_thread].errors = 0


\* the sum of call_count over the first n minute_stats rows of target id
RECURSIVE CountedCalls(_, _)
CountedCalls(id, n) ==
    IF n = 0 THEN 0
    ELSE CountedCalls(id, n - 1)
         + (IF minute_stats[n].config_id = id THEN minute_stats[n].call_count ELSE 0)

\* a call_details row lies strictly inside the windows of two rows of its
\* target, away from their ends
CountedTwiceInside ==
    \E r \in call_details : \E j, k \in 1..Len(minute_stats) :
       /\ j < k
       /\ minute_stats[j].config_id = r.config_id
       /\ minute_stats[k].config_id = r.config_id
       /\ minute_stats[j].start_time < r.ts /\ r.ts < minute_stats[j].end_time
       /\ minute_stats[k].start_time < r.ts /\ r.ts < minute_stats[k].end_time

\* the windows of two minute_stats rows of one target overlap in more than
\* an end
WindowsOverlap ==
    \E j, k \in 1..Len(minute_stats) :
       /\ j < k
       /\ minute_stats[j].config_id = minute_stats[k].config_id
       /\ minute_stats[k].start_time < minute_stats[j].end_time

\* C40: in one session every call_details row is counted in at most one
\* minute_stats row of its target: the call counts of the rows of a target
\* add up to no more than the calls of the target on record
C40_CountedAtMostOnce ==
    \A id \in Ids :
       CountedCalls(id, Len(minute_stats))
          <= Cardinality({r \in call_details : r.config_id = id})

====
